---- MODULE Spec2Model ----
(***************************************************************************)
(* Model of the SLA deadline and violation tracking engine of the          *)
(* Intercom -> Slack notifier: the polling driver (src/src/poll.js) feeding *)
(* ticket snapshots into checkSLAStatus (sla-monitor-enhanced.js, kept as   *)
(* src/unnamed/part_002), the in-memory slaStateCache, the sla-state.json   *)
(* file behind it and the alert messages sent to the SLA channel; the       *)
(* assignment notifications and state.json of the driver (state.js), the    *)
(* business-hours calendar (business-hours.js) and the processes that read  *)
(* or write the store beside the poller.                                    *)
(*                                                                         *)
(* JavaScript's null / undefined / 0 timestamps are all falsy in the code   *)
(* and are all written 0 here.  Every `await` of the code is a point where  *)
(* another polling pass may run, so an asynchronous function is one action  *)
(* per stretch of code between two awaits.                                  *)
(***************************************************************************)
EXTENDS Integers, Sequences, FiniteSets, TLC

(***************************************************************************)
(* Bounds of the model                                                     *)
(***************************************************************************)
MaxEvents == 3           \* timer firings, clock advances, upstream changes
                         \* and restarts explored when passes may overlap
MaxSerialEvents == 4     \* the same when passes run one after another
Epoch == 1000            \* instant (seconds) at which a ticket was assigned
SnoozeFor == 300         \* how long the ticketing system snoozes a ticket
MaxDriverEvents == 2     \* events explored around poll() taken as a whole
MaxSiblingEvents == 3    \* events explored with the processes beside the poller
CalendarSteps == 336     \* half hours at which the calendar is asked: a week
MaxRows == 2             \* rows handed to getSLAStats
MaxServiceEvents == 2    \* webhook deliveries, commands and conversation changes explored
MaxElapses == 3          \* five-minute advances of the service's clock
MaxIntervals == 2        \* firings of the poller's timer at distinct instants
MaxImportEvents == 2     \* events explored while the module is being imported
MaxChecks == 3           \* calls of the status-only checkSLAStatus
HexLen == 2              \* characters of a digest in the X-Hub-Signature header

Tickets == {"t1"}
Passes == {"p1", "p2"}   \* setInterval callbacks that may be running at once
ArrayIds == {"a1", "a2", "a3"}
PassRank == [p1 |-> 1, p2 |-> 2]

(***************************************************************************)
(* Program constants                                                       *)
(***************************************************************************)
FiveMinutes == 300       \* 5 * 60
OneDay == 86400          \* 24 * 60 * 60
DedupeTtl == 600         \* DEDUPE_TTL_SECONDS, by default
CheckInterval == 30      \* CHECK_INTERVAL, by default, in seconds
OneHour == 3600          \* the gap isAssignmentNotified takes for a reassignment

VARIABLES
    \* the SLA engine (sla-monitor-enhanced.js) and the passes that drive it
    now,              \* Date.now() in seconds
    upstream,         \* the tickets as the ticketing system holds them
    slaChannel,       \* SLA_ALERT_CHANNEL is configured
    slaStateCache,    \* Map ticketId -> SLA tracking data (NoRecord: no key)
    heap,             \* the alert_history arrays, by reference
    slaStateFile,     \* contents of sla-state.json
    pc,               \* where each polling pass stands
    queue,            \* search results a pass still has to process
    frame,            \* locals of a checkSLAStatus call suspended at an await
    writing,          \* the fs.writeFile a pass is waiting for
    delivered,        \* alert messages delivered to the SLA channel
    duplicated,       \* those delivered more than once
    failed,           \* those whose dispatch failed at least once
    ticks,            \* clock advances so far
    budget,           \* events of the environment still to be explored
    \* poll() around the engine (poll.js, state.js)
    stateFile,            \* contents of state.json
    processedAssignments, \* the in-memory Set of poll.js
    stage,                \* where poll() stands outside checkSLAStatus
    local,                \* currentTimestamp and lastCheckTime of the pass
    pass,                 \* what the pass under way, or the last one, did
    messages,             \* assignment messages delivered to assignees
    \* business-hours.js
    businessHours,    \* the configuration of the environment
    calendarCall,     \* the last call of the module and its result
    \* the processes beside the poller
    updater,          \* update-assignees.js: the state object it holds
    dashboard,        \* dashboard-server.js: its own slaStateCache
    \* module import of sla-monitor-enhanced.js
    disk,                     \* condition of the two files when read
    assignmentTrackingFile,   \* contents of assignment-tracking.json
    assignmentTrackingCache,  \* Map ticketId -> assignment tracking data
    loading,                  \* the two loads started by the import
    \* functions called on their own
    probe,            \* the last call of a pure function and its result
    \* the webhook service (server.js, webhook-handler.js, dedupe.js,
    \* preferences.js, nudge.js) and what it talks to
    instant,          \* Date.now() of the service, in seconds
    settings,         \* FIN_GATE_MODE, FALLBACK_CHANNEL, SLA_NUDGE_MINUTES
    conversations,    \* the conversations as Intercom holds them
    dedupeStore,      \* Map key -> timestamp of dedupe.js
    preferencesStore, \* Map email -> optedIn of preferences.js
    nudgeQueue,       \* Map conversationId -> scheduled nudge of nudge.js
    timers,           \* the setTimeout callbacks of nudge.js, pending or running
    served,           \* deliveries, commands and conversation changes so far
    handlers,         \* the handleWebhook calls under way
    slack             \* what was posted to Slack, in order

engine == <<now, upstream, slaChannel, slaStateCache, heap, slaStateFile, pc,
            queue, frame, writing, delivered, duplicated, failed, ticks, budget>>

driver == <<stateFile, processedAssignments, stage, local, pass, messages>>

calendar == <<businessHours, calendarCall>>

siblings == <<updater, dashboard>>

startup == <<disk, assignmentTrackingFile, assignmentTrackingCache, loading>>

pure == <<probe>>

service == <<instant, settings, conversations, dedupeStore, preferencesStore,
             nudgeQueue, timers, served, handlers, slack>>

vars == <<engine, driver, calendar, siblings, startup, pure, service>>

NoRecord == [exists |-> FALSE]
NoFrame == [active |-> FALSE]
NoWrite == [pending |-> FALSE]

Result(alerted, violationType, deadline) ==
    [alerted |-> alerted, violationType |-> violationType, deadline |-> deadline]

(***************************************************************************)
(* Ticket snapshots                                                        *)
(***************************************************************************)
\* The ticket returned by GET /tickets/{id}, after poll() merged the SLA of
\* the linked conversation into it when that conversation could be fetched.
FullTicket(t, convOk) ==
    LET u == upstream[t] IN
    [id |-> t,
     sla_status |-> IF u.slaOn = "ticket" \/ convOk THEN u.sla_status ELSE "none",
     first_assignment_at |-> u.first_assignment_at,
     last_assignment_at |-> u.last_assignment_at,
     admin_assignee_id |-> u.admin_assignee_id,
     updated_at |-> u.updated_at,
     created_at |-> u.created_at,
     snoozed_until |-> u.snoozed_until,
     category |-> u.category]

\* An element of the search result: no conversation is merged into it, and
\* it carries statistics only when the search API returns them.
SearchResult(t, withStats) ==
    LET u == upstream[t] IN
    [id |-> t,
     sla_status |-> IF u.slaOn = "ticket" THEN u.sla_status ELSE "none",
     first_assignment_at |-> IF withStats THEN u.first_assignment_at ELSE 0,
     last_assignment_at |-> IF withStats THEN u.last_assignment_at ELSE 0,
     admin_assignee_id |-> u.admin_assignee_id,
     updated_at |-> u.updated_at,
     created_at |-> u.created_at,
     snoozed_until |-> u.snoozed_until,
     category |-> u.category]

(***************************************************************************)
(* Pure helpers of sla-monitor-enhanced.js                                 *)
(***************************************************************************)
\* isTicketPaused without its snooze test: what C8 must tell apart.
isTicketPausedNoSnooze(ticket, at) ==
    ticket.category = "waiting_on_customer"

isTicketPaused(ticket, at) ==
    \/ ticket.snoozed_until # 0 /\ ticket.snoozed_until > at
    \/ ticket.category = "waiting_on_customer"

\* getAssignmentTimestamp falling back to updated_at for an unassigned
\* ticket too: what C9 must tell apart.
getAssignmentTimestampAnyUpdate(ticket) ==
    IF ticket.first_assignment_at # 0 THEN ticket.first_assignment_at
    ELSE IF ticket.last_assignment_at # 0 THEN ticket.last_assignment_at
    ELSE ticket.updated_at

getAssignmentTimestamp(ticket) ==
    IF ticket.first_assignment_at # 0 THEN ticket.first_assignment_at
    ELSE IF ticket.last_assignment_at # 0 THEN ticket.last_assignment_at
    ELSE IF ticket.admin_assignee_id # 0 /\ ticket.updated_at # 0
         THEN ticket.updated_at
    ELSE 0

\* An SLA name is the set of keywords its upper-cased text contains; the
\* SLA_DURATIONS environment variable is `set` when non-empty and maps a
\* bucket to 0 when it has no usable number for it.
NoDurations == [set |-> FALSE, FRT |-> 0, NRT |-> 0, TTC |-> 0]

getSLADuration(slaName, env) ==
    LET frt == "FIRST RESPONSE" \in slaName \/ "FRT" \in slaName
        nrt == "NEXT RESPONSE" \in slaName \/ "NRT" \in slaName
        ttc == "CLOSE" \in slaName \/ "TTC" \in slaName
    IN  IF env.set /\ frt THEN (IF env.FRT # 0 THEN env.FRT ELSE FiveMinutes)
        ELSE IF env.set /\ nrt THEN (IF env.NRT # 0 THEN env.NRT ELSE FiveMinutes)
        ELSE IF env.set /\ ttc THEN (IF env.TTC # 0 THEN env.TTC ELSE OneDay)
        ELSE IF frt THEN FiveMinutes
        ELSE IF nrt THEN FiveMinutes
        ELSE IF ttc THEN OneDay
        ELSE FiveMinutes

calculateDeadline(assignedAt, slaDuration, enabled) ==
    IF ~enabled THEN assignedAt + slaDuration
    ELSE assignedAt + slaDuration

\* Configuration the engine runs under.
SlaName == {"FIRST RESPONSE", "FRT"}
SlaDurationsEnv == NoDurations
BusinessHoursEnabled == TRUE

(***************************************************************************)
(* The alert_history arrays                                                *)
(***************************************************************************)
\* previousState?.alert_history || []: the history the store holds for a
\* ticket, empty without a record.
RecordedHistory(cache, h, t) ==
    IF cache[t].exists THEN h[cache[t].alert_history] ELSE <<>>

\* Arrays reachable from the cache or from a suspended call.
LiveArrays(cache, frames) ==
    {cache[t].alert_history : t \in {x \in Tickets : cache[x].exists}}
    \cup {frames[p].stateUpdate.alert_history :
             p \in {q \in Passes : frames[q].active /\ frames[q].awaiting = "send"}}

Collect(h, cache, frames) ==
    [a \in ArrayIds |-> IF a \in LiveArrays(cache, frames) THEN h[a] ELSE <<>>]

FreshArray == CHOOSE a \in ArrayIds : a \notin LiveArrays(slaStateCache, frame)

\* JSON.stringify(Object.fromEntries(slaStateCache)): the arrays by value.
Serialize(cache, h) ==
    [t \in Tickets |->
        IF cache[t].exists
        THEN [cache[t] EXCEPT !.alert_history = h[cache[t].alert_history]]
        ELSE NoRecord]

\* A file's records get arrays of their own when JSON.parse builds them.
ArrayOf == CHOOSE f \in [Tickets -> ArrayIds] : \A s, t \in Tickets : s # t => f[s] # f[t]

\* loadSLAState: the cache and the arrays built from the parsed file.
LoadedCache(file) ==
    [t \in Tickets |->
        IF file[t].exists THEN [file[t] EXCEPT !.alert_history = ArrayOf[t]]
        ELSE NoRecord]

LoadedHeap(file) ==
    [a \in ArrayIds |->
        IF \E t \in Tickets : file[t].exists /\ ArrayOf[t] = a
        THEN file[CHOOSE t \in Tickets : ArrayOf[t] = a].alert_history
        ELSE <<>>]

\* What the claims count: one key per missed status of a ticket and one per
\* ticket and deadline value.
AlertKey(t, type, deadline) ==
    [ticket |-> t, type |-> type,
     deadline |-> IF type = "deadline_violation" THEN deadline ELSE 0]

(***************************************************************************)
(* checkSLAStatus: what a call derives before its first await              *)
(***************************************************************************)
missedNotified(history) ==
    \E i \in DOMAIN history :
        history[i].type = "status_missed" /\ history[i].status = "missed"

\* The deadline test looking at the wrong field of the entry: what C7 must
\* tell apart.
deadlineNotifiedByTimestamp(history, deadline) ==
    \E i \in DOMAIN history :
        history[i].type = "deadline_violation" /\ history[i].timestamp = deadline

deadlineNotified(history, deadline) ==
    \E i \in DOMAIN history :
        history[i].type = "deadline_violation" /\ history[i].deadline = deadline

\* Lines 394-469: everything the call derives from the ticket, the previous
\* alert history and the clock.
Evaluate(ticket, history, at) ==
    LET currentStatus == ticket.sla_status
        assignedAt == getAssignmentTimestamp(ticket)
        slaDuration == getSLADuration(SlaName, SlaDurationsEnv)
        isPaused == isTicketPaused(ticket, at)
        deadline == IF assignedAt # 0 /\ slaDuration # 0
                    THEN calculateDeadline(assignedAt, slaDuration, BusinessHoursEnabled)
                    ELSE 0
        missed == currentStatus = "missed" /\ ~missedNotified(history)
        overrun == /\ ~isPaused
                   /\ currentStatus = "active"
                   /\ deadline # 0
                   /\ at > deadline
                   /\ ~deadlineNotified(history, deadline)
    IN  [sla_status |-> currentStatus,
         assigned_at |-> assignedAt,
         sla_duration |-> slaDuration,
         deadline |-> deadline,
         is_paused |-> isPaused,
         violationType |-> IF overrun THEN "deadline_violation"
                           ELSE IF missed THEN "status_missed" ELSE "none",
         shouldAlert |-> missed \/ overrun]

StateUpdate(e, array) ==
    [exists |-> TRUE, sla_status |-> e.sla_status, assigned_at |-> e.assigned_at,
     sla_duration |-> e.sla_duration, deadline |-> e.deadline,
     is_paused |-> e.is_paused, alert_history |-> array]

(***************************************************************************)
(* business-hours.js.  Instants are seconds since 1970-01-01T00:00Z, a      *)
(* Thursday.  A time zone is valid or not and, when valid, lies `offset`    *)
(* minutes east of UTC; a calendar day is numbered from 1970-01-01, which   *)
(* stands for its year, month and day of month.  With hour12: false the     *)
(* runtime renders the hour after midnight as 0 or as 24 depending on its   *)
(* version: `midnight` is that rendering.                                   *)
(***************************************************************************)
Least(S) == CHOOSE x \in S : \A y \in S : x <= y

\* Intl.DateTimeFormat(...).formatToParts(date) in the configured zone.
formatToParts(date, config) ==
    LET wall == date + config.timezone.offset * 60
        hour == (wall % OneDay) \div 3600
    IN  [day |-> wall \div OneDay,
         weekday |-> ((wall \div OneDay) + 4) % 7,
         hour |-> IF hour = 0 THEN config.midnight ELSE hour,
         minute |-> (wall % 3600) \div 60]

\* isBusinessHours with no calendar at all: what C20 must tell apart.
isBusinessHoursAlways(date, config) == TRUE

isBusinessHours(date, config) ==
    IF ~config.enabled THEN TRUE
    ELSE IF ~config.timezone.valid THEN TRUE      \* the catch: fail open
    ELSE LET parts == formatToParts(date, config)
             currentMinutes == parts.hour * 60 + parts.minute
             startMinutes == config.startTime.hours * 60 + config.startTime.minutes
             endMinutes == config.endTime.hours * 60 + config.endTime.minutes
         IN  IF parts.weekday \notin config.businessDays THEN FALSE
             ELSE currentMinutes >= startMinutes /\ currentMinutes < endMinutes

\* date.setUTCHours(hours, minutes, 0, 0); hours outside 0..23 carry into
\* the neighbouring days.
setUTCHours(date, hours, minutes) ==
    (date \div OneDay) * OneDay + hours * 3600 + minutes * 60

\* The candidates a loop rendered: all of them when none matched, those up to
\* the first match otherwise.
Rendered(hits, candidates) ==
    IF hits = {} THEN Cardinality(candidates)
    ELSE Cardinality({c \in candidates : c <= Least(hits)})

\* Lines 153-249.  The result is the instant found and the number of
\* renderings it took.
findUTCTimeForTimezoneTime(referenceDate, targetHour, targetMinute, config) ==
    LET ref == formatToParts(referenceDate, config)
        Matches(testDate) ==
            LET test == formatToParts(testDate, config)
            IN  test.day = ref.day /\ test.hour = targetHour /\ test.minute = targetMinute
        \* first loop: whole hours around the target hour on the UTC day
        simple == {o \in -12..12 :
                      Matches(setUTCHours(referenceDate, targetHour + o, targetMinute))}
        \* second loop: around the offset estimated from the rendered hour
        estimatedOffset == ref.hour - ((referenceDate % OneDay) \div 3600)
        around == (estimatedOffset - 2)..(estimatedOffset + 2)
        estimated == {o \in around :
                         Matches(setUTCHours(referenceDate, targetHour + o, targetMinute))}
        \* last loop: every quarter of an hour of the UTC day
        quarters == 0..95
        Quarter(q) == setUTCHours(setUTCHours(referenceDate, 12, 0), q \div 4, (q % 4) * 15)
        scanned == {q \in quarters : Matches(Quarter(q))}
    IN  IF simple # {}
        THEN [value |-> setUTCHours(referenceDate, targetHour + Least(simple), targetMinute),
              renderings |-> 1 + Rendered(simple, -12..12)]
        ELSE IF estimated # {}
        THEN [value |-> setUTCHours(referenceDate, targetHour + Least(estimated), targetMinute),
              renderings |-> 1 + 25 + 1 + Rendered(estimated, around)]
        ELSE IF scanned # {}
        THEN [value |-> Quarter(Least(scanned)),
              renderings |-> 1 + 25 + 1 + 5 + Rendered(scanned, quarters)]
        ELSE [value |-> referenceDate + 12 * 3600,
              renderings |-> 1 + 25 + 1 + 5 + 96]

\* Lines 94-143.  Constructing the formatter throws a RangeError for a time
\* zone the runtime does not know, and nothing catches it.
getNextBusinessHoursStart(at, config) ==
    IF ~config.timezone.valid THEN [raised |-> TRUE, value |-> 0, renderings |-> 0]
    ELSE LET current == formatToParts(at, config)
             currentTzMinutes == current.hour * 60 + current.minute
             startMinutes == config.startTime.hours * 60 + config.startTime.minutes
             today == current.weekday \in config.businessDays /\ currentTzMinutes < startMinutes
             ahead == {d \in 1..13 :
                          formatToParts(at + d * OneDay, config).weekday \in config.businessDays}
             found == IF today
                      THEN findUTCTimeForTimezoneTime(at, config.startTime.hours,
                                                      config.startTime.minutes, config)
                      ELSE IF ahead # {}
                      THEN findUTCTimeForTimezoneTime(at + Least(ahead) * OneDay,
                                                      config.startTime.hours,
                                                      config.startTime.minutes, config)
                      ELSE [value |-> at + OneDay, renderings |-> 0]
         IN  [raised |-> FALSE, value |-> found.value,
              renderings |-> 1 + (IF today THEN 0 ELSE Rendered(ahead, 1..13))
                               + found.renderings]

\* getBusinessHoursConfig (lines 255-267): the time zone
\* (BUSINESS_HOURS_TIMEZONE), the window and the business days of the
\* environment.
Zone(offset) == [valid |-> TRUE, offset |-> offset]

UnknownZone == [valid |-> FALSE, offset |-> 0]

Time(hours, minutes) == [hours |-> hours, minutes |-> minutes]

getBusinessHoursConfig(enabled, timezone, midnight, startTime, endTime, businessDays) ==
    [enabled |-> enabled, timezone |-> timezone, midnight |-> midnight,
     startTime |-> startTime, endTime |-> endTime, businessDays |-> businessDays]

\* The defaults of lines 7-17: 09:00-17:00, Monday to Friday.
DefaultConfig(enabled, timezone, midnight) ==
    getBusinessHoursConfig(enabled, timezone, midnight, Time(9, 0), Time(17, 0),
                           {1, 2, 3, 4, 5})

(***************************************************************************)
(* state.js: state.json holds lastCheckTime (0: null) and the notified      *)
(* assignments.  An assignment is filed under `${ticketId}:${assigneeId}`;   *)
(* with the single admin of this model that key is the ticket.              *)
(***************************************************************************)
\* The tickets a search may return: the tracked ones and one more, which
\* never carries an SLA.
Searched == Tickets \cup {"t2"}

UntrackedTicket(t) ==
    [id |-> t, sla_status |-> "none", first_assignment_at |-> Epoch,
     last_assignment_at |-> Epoch, admin_assignee_id |-> 1, updated_at |-> Epoch,
     created_at |-> Epoch, snoozed_until |-> 0, category |-> "open"]

NoNotice == [present |-> FALSE]

\* getState on a missing file (lines 23-28).
DefaultState ==
    [exists |-> FALSE, lastCheckTime |-> 0,
     notifiedAssignments |-> [t \in Searched |-> NoNotice]]

\* getState (lines 18-33) when the file can be read.
getState(file) == IF file.exists THEN file ELSE DefaultState

Abs(x) == IF x < 0 THEN 0 - x ELSE x

\* Lines 77-145, called without options.
isAssignmentNotified(state, ticketId, assigneeId, assignmentTimestamp, at) ==
    LET n == state.notifiedAssignments[ticketId]
    IN  IF ~(n.present /\ n.assigneeId = assigneeId) THEN FALSE
        ELSE IF n.assignmentTimestamp = assignmentTimestamp THEN TRUE
        ELSE IF Abs(n.assignmentTimestamp - assignmentTimestamp) < FiveMinutes THEN TRUE
        ELSE IF at - n.notifiedAt < 600 THEN TRUE
        ELSE IF Abs(n.assignmentTimestamp - assignmentTimestamp) < 3600 THEN TRUE
        ELSE FALSE

\* Lines 153-175 between getState and saveState: the entry is set and the
\* entries older than seven days are dropped.
markAssignmentNotified(state, ticketId, assigneeId, assignmentTimestamp, at) ==
    LET marked == [state.notifiedAssignments EXCEPT ![ticketId] =
                      [present |-> TRUE, assigneeId |-> assigneeId,
                       assignmentTimestamp |-> assignmentTimestamp,
                       notifiedAt |-> at]]
    IN  [exists |-> TRUE, lastCheckTime |-> state.lastCheckTime,
         notifiedAssignments |->
             [t \in Searched |->
                 IF marked[t].present /\ marked[t].notifiedAt < at - 7 * OneDay
                 THEN NoNotice ELSE marked[t]]]

\* Lines 181-204: the file is created with the current time when it does
\* not exist.
initializeState(state, at) ==
    IF state.exists THEN state
    ELSE [exists |-> TRUE, lastCheckTime |-> at,
          notifiedAssignments |-> [t \in Searched |-> NoNotice]]

\* Lines 62-66 between getState and saveState.
updateLastCheckTime(state, timestamp) ==
    [exists |-> TRUE, lastCheckTime |-> timestamp,
     notifiedAssignments |-> state.notifiedAssignments]

(***************************************************************************)
(* poll.js, processTicket (lines 56-175).  What the calls to the outside    *)
(* do is given by `io`:                                                     *)
(*   fetch   getTicket succeeds                                             *)
(*   read    state.json can be read and parsed in isAssignmentNotified      *)
(*   admin   getAdmin: "ok", "none" (no admin or no email), "throw"         *)
(*   optedIn isOptedIn(assigneeEmail)                                       *)
(*   dm      sendTicketAssignmentDM: "ok", "fail" (success false), "throw"  *)
(*   mark    markAssignmentNotified: "ok", "unreadable", "unwritable"       *)
(***************************************************************************)
\* A call that is not reached has no outcome to choose: it is given the
\* good one.
TicketIO ==
    {io \in [fetch : BOOLEAN, read : BOOLEAN, admin : {"ok", "none", "throw"},
             optedIn : BOOLEAN, dm : {"ok", "fail", "throw"},
             mark : {"ok", "unreadable", "unwritable"}] :
        /\ ~io.read => io.admin = "ok"
        /\ io.admin # "ok" => io.optedIn
        /\ ~io.optedIn => io.dm = "ok"
        /\ io.dm # "ok" => io.mark = "ok"}

AssignmentKey(ticketId, assigneeId, assignmentTimestamp) ==
    [ticket |-> ticketId, assignee |-> assigneeId, timestamp |-> assignmentTimestamp]

\* What a processTicket call leaves behind: whether it threw, what it
\* returned, the ticket object as it mutated it, state.json, the
\* processedAssignments set and the direct messages delivered.
Processed(threw, sent, ticket, state, processed, dms) ==
    [threw |-> threw, sent |-> sent, ticket |-> ticket, state |-> state,
     processedAssignments |-> processed, messages |-> dms]

processTicket(ticket, full, lastCheckTime, state, processed, io, at) ==
    LET ticketId == ticket.id
        adminAssigneeId == ticket.admin_assignee_id
        early == getAssignmentTimestamp(ticket)
        fetched == early = 0 /\ io.fetch
        \* lines 70-82: the statistics of the full ticket are merged in
        merged == IF fetched
                  THEN [ticket EXCEPT !.first_assignment_at = full.first_assignment_at,
                                      !.last_assignment_at = full.last_assignment_at]
                  ELSE ticket
        looked == IF fetched THEN getAssignmentTimestamp(full) ELSE early
        assignmentTimestamp ==
            IF looked = 0 /\ ticket.admin_assignee_id # 0 /\ ticket.updated_at # 0
            THEN ticket.updated_at ELSE looked
        createdAt == ticket.created_at
        updatedAt == IF ticket.updated_at # 0 THEN ticket.updated_at ELSE createdAt
        key == AssignmentKey(ticketId, adminAssigneeId, assignmentTimestamp)
        Returns(sent, t, s, p, m) == Processed(FALSE, sent, t, s, p, m)
    IN  IF adminAssigneeId = 0 THEN Returns(FALSE, ticket, state, processed, {})
        ELSE IF assignmentTimestamp = 0 THEN Returns(FALSE, merged, state, processed, {})
        ELSE IF createdAt < lastCheckTime /\ updatedAt < lastCheckTime
             THEN Returns(FALSE, merged, state, processed, {})
        \* line 108: outside the try block, an unreadable state.json throws
        ELSE IF ~io.read THEN Processed(TRUE, FALSE, merged, state, processed, {})
        ELSE IF isAssignmentNotified(getState(state),
                                     ticketId, adminAssigneeId, assignmentTimestamp, at)
             THEN Returns(FALSE, merged, state, processed, {})
        ELSE IF key \in processed THEN Returns(FALSE, merged, state, processed, {})
        \* lines 122-174: the key is added before anything is sent
        ELSE IF io.admin # "ok" \/ ~io.optedIn \/ io.dm # "ok"
             THEN Returns(FALSE, merged, state, processed \cup {key}, {})
        ELSE IF io.mark # "ok"
             THEN Returns(FALSE, merged, state, processed \cup {key}, {key})
        ELSE Returns(TRUE, merged,
                     markAssignmentNotified(getState(state),
                                            ticketId, adminAssigneeId,
                                            assignmentTimestamp, at),
                     processed \cup {key}, {key})

\* What poll() logs of a pass: how it ended, the tickets its search found,
\* those whose loop body ran to its end, and the persisted state it began
\* with.
Pass(result, found, handled, begun) ==
    [result |-> result, found |-> found, handled |-> handled, begun |-> begun]

NoPass == Pass("none", <<>>, {}, <<>>)

NoCall == [fn |-> "none"]

NoUpdater == [running |-> FALSE]

NoTracking == [t \in Tickets |-> [exists |-> FALSE]]


(***************************************************************************)
(* Functions called on their own                                           *)
(***************************************************************************)
\* No function has been called yet.
NoCalls == probe = NoCall

\* The keywords getSLADuration looks for; an SLA name is given by the
\* keywords its upper-cased text contains.
Keywords == {"FIRST RESPONSE", "FRT", "NEXT RESPONSE", "NRT", "CLOSE", "TTC"}

SlaNames == {name \in SUBSET Keywords : Cardinality(name) <= 2}

\* SLA_DURATIONS as parsed at lines 248-256: unset, or a table in which an
\* absent key, like a value parseInt turns into 0 or NaN, is falsy (0).
DurationEnvs ==
    {NoDurations} \cup
    [set : {TRUE}, FRT : {0, 120, 600}, NRT : {0, 120, 600}, TTC : {0, 120, 2 * OneDay}]

(***************************************************************************)
(* webhook-handler.js: extractAssignmentInfo.  A payload is given by the   *)
(* fields the function reads.  Absent, null and empty values are all falsy *)
(* in the code and are written "" (identifiers, addresses) or 0 (instants) *)
(* here; names are treated by the code exactly as e-mail addresses are and *)
(* are left out.                                                           *)
(***************************************************************************)
Nobody == [kind |-> "none", id |-> "", email |-> ""]

NoInfo ==
    [found |-> FALSE, conversationId |-> "", assigneeId |-> "", assigneeEmail |-> "",
     teamAssigneeId |-> "", lastAssignmentAt |-> 0]

\* Lines 79-116: one conversation part, given assigneeId and assigneeEmail
\* as the parts before it left them.
AfterPart(part, found) ==
    IF part.part_type \notin {"assignment", "default_assignment"} THEN found
    ELSE LET to == part.assigned_to
             assigned ==
                 IF to.type = "none" THEN found
                 ELSE IF to.type = "admin" /\ to.id # ""
                      THEN [id |-> to.id,
                            email |-> IF to.email # "" THEN to.email ELSE found.email]
                 ELSE IF to.type = "team" /\ found.id = "" THEN found
                 ELSE IF to.id # "" /\ found.id = "" /\ to.type # "team"
                      THEN [found EXCEPT !.id = to.id]
                 ELSE found
             author == part.author
         IN  IF author.id # "" /\ author.type = "admin"
             THEN [id |-> IF assigned.id = "" THEN author.id ELSE assigned.id,
                   email |-> IF author.email # "" /\ assigned.email = ""
                             THEN author.email ELSE assigned.email]
             ELSE assigned

RECURSIVE AfterParts(_, _)
AfterParts(parts, found) ==
    IF parts = <<>> THEN found
    ELSE AfterParts(Tail(parts), AfterPart(Head(parts), found))

\* Lines 34-190.
extractAssignmentInfo(payload) ==
    IF payload.item = "none" THEN NoInfo
    ELSE LET conversationId ==
                 IF payload.item_id # "" THEN payload.item_id ELSE payload.conversation_id
             teamAssigneeId == payload.team_assignee_id
             lastAssignmentAt ==
                 IF payload.last_assignment_at # 0 THEN payload.last_assignment_at
                 ELSE payload.created_at
             byId == [id |-> payload.admin_assignee_id, email |-> ""]
             byObject ==
                 IF byId.id = "" /\ payload.admin_assignee.kind = "string"
                 THEN [byId EXCEPT !.id = payload.admin_assignee.id]
                 ELSE IF byId.id = "" /\ payload.admin_assignee.kind = "object"
                         /\ payload.admin_assignee.id # ""
                      THEN [id |-> payload.admin_assignee.id,
                            email |-> payload.admin_assignee.email]
                 ELSE byId
             byData ==
                 IF byObject.id = "" /\ payload.data_admin_assignee_id # ""
                 THEN [byObject EXCEPT !.id = payload.data_admin_assignee_id]
                 ELSE byObject
             byParts == AfterParts(payload.parts, byData)
             byOldFormat ==
                 IF byParts.id = "" /\ payload.assignee.kind # "none"
                    /\ payload.assignee.id # ""
                 THEN IF payload.assignee.kind = "string"
                      THEN [byParts EXCEPT !.id = payload.assignee.id]
                      ELSE [id |-> payload.assignee.id, email |-> payload.assignee.email]
                 ELSE byParts
         IN  IF conversationId = "" \/ byOldFormat.id = "" THEN NoInfo
             ELSE [found |-> TRUE,
                   conversationId |-> conversationId,
                   assigneeId |-> byOldFormat.id,
                   assigneeEmail |-> byOldFormat.email,
                   teamAssigneeId |-> teamAssigneeId,
                   lastAssignmentAt |-> lastAssignmentAt]

(***************************************************************************)
(* dedupe.js: one Map for webhook ids and assignment keys, given here as   *)
(* the set of its entries.  Instants are in seconds.                       *)
(***************************************************************************)
WebhookKey(webhookId) == <<"webhook", webhookId, "", 0>>

dedupe_key(conversationId, assigneeEmail, lastAssignmentAt) ==
    <<"assignment", conversationId, assigneeEmail, lastAssignmentAt>>

Without(store, key) == {entry \in store : entry.key # key}

\* Lines 21-31 and 57-66: the lookup shared by the two predicates.  An
\* entry older than the TTL is deleted and counts as absent.
Lookup(store, key, at) ==
    IF \A entry \in store : entry.key # key
    THEN [result |-> FALSE, store |-> store]
    ELSE LET entry == CHOOSE e \in store : e.key = key
         IN  IF at - entry.timestamp > DedupeTtl
             THEN [result |-> FALSE, store |-> Without(store, key)]
             ELSE [result |-> TRUE, store |-> store]

\* Lines 18-32.
isWebhookProcessed(store, webhookId, at) ==
    IF webhookId = "" THEN [result |-> FALSE, store |-> store]
    ELSE Lookup(store, WebhookKey(webhookId), at)

\* Lines 39-45.
markWebhookProcessed(store, webhookId, at) ==
    IF webhookId = "" THEN store
    ELSE Without(store, WebhookKey(webhookId))
            \cup {[key |-> WebhookKey(webhookId), timestamp |-> at]}

\* Lines 53-67.
dedupe_isAssignmentNotified(store, conversationId, assigneeEmail, lastAssignmentAt, at) ==
    IF conversationId = "" \/ assigneeEmail = "" \/ lastAssignmentAt = 0
    THEN [result |-> FALSE, store |-> store]
    ELSE Lookup(store, dedupe_key(conversationId, assigneeEmail, lastAssignmentAt), at)

\* Lines 76-84.
dedupe_markAssignmentNotified(store, conversationId, assigneeEmail, lastAssignmentAt, at) ==
    IF conversationId = "" \/ assigneeEmail = "" \/ lastAssignmentAt = 0 THEN store
    ELSE LET key == dedupe_key(conversationId, assigneeEmail, lastAssignmentAt)
         IN  Without(store, key) \cup {[key |-> key, timestamp |-> at]}

\* The store after a send that failed, were the webhook marked all the same:
\* what C40 must tell apart.
AfterFailedSendMarked(store, webhookId, at) == markWebhookProcessed(store, webhookId, at)

\* webhook-handler.js lines 424-430: when the send failed nothing is marked.
AfterFailedSend(store, webhookId, at) == store

\* Lines 89-96.
cleanup(store, at) == {entry \in store : ~(at - entry.timestamp > DedupeTtl)}

(***************************************************************************)
(* preferences.js                                                          *)
(***************************************************************************)
\* The addresses of the one agent of the model, as Intercom and Slack may
\* spell them.
Emails == {"ann@x.io", "Ann@x.io"}

toLowerCase(email) == IF email = "Ann@x.io" THEN "ann@x.io" ELSE email

\* The addresses a preference may be stored for.
Addresses == {"ann@x.io", "bob@x.io", "ann@staytuned.digital"}

NoPreferences == [email \in Addresses |-> "unset"]

\* Lines 58-68; DEFAULT_OPT_IN is left at its default, true.
isOptedIn(store, email) ==
    IF email = "" THEN TRUE
    ELSE IF store[toLowerCase(email)] = "unset" THEN TRUE
    ELSE store[toLowerCase(email)] = "in"

\* Lines 76-92, up to the await of savePreferences.
setPreference(store, email, optedIn) ==
    [store EXCEPT ![toLowerCase(email)] = IF optedIn THEN "in" ELSE "out"]

(***************************************************************************)
(* fin.js: a conversation is given, for this function, by the set of the   *)
(* places in which it shows an AI agent.                                   *)
(***************************************************************************)
FinRules ==
    <<"from_ai_agent", "is_ai_answer", "bot_author", "metadata", "ai_agent",
      "ai_agent_participated", "custom_attributes", "source", "statistics">>

\* Lines 13-139: the first rule that matches decides; none: not involved.
isFinInvolved(conversation) ==
    LET matching == {i \in 1..Len(FinRules) : FinRules[i] \in conversation.indicators}
    IN  IF matching = {} THEN [involved |-> FALSE, matchedRules |-> <<>>]
        ELSE [involved |-> TRUE,
              matchedRules |-> <<FinRules[CHOOSE i \in matching :
                                             \A j \in matching : i <= j]>>]

(***************************************************************************)
(* The webhook service and what is around it                               *)
(***************************************************************************)
Conversations == {"c1"}
Slots == {"h1", "h2"}    \* handleWebhook calls that may be under way at once
SlotRank == [h1 |-> 1, h2 |-> 2]

\* The conversation c1 was assigned at Epoch.
Conversation(state, indicators, admin, team) ==
    [id |-> "c1", state |-> state, indicators |-> indicators,
     admin_assignee_id |-> admin, admin_email |-> IF admin = "" THEN "" ELSE "ann@x.io",
     team_assignee_id |-> team, last_assignment_at |-> Epoch, admin_reply_at |-> 0]

Settings(mode, fallback, minutes) ==
    [FIN_GATE_MODE |-> mode, FALLBACK_CHANNEL |-> fallback, SLA_NUDGE_MINUTES |-> minutes]

NoNudge == [scheduled |-> FALSE]
NoHandler == [pc |-> "idle"]

\* The service is up and has nothing to do.
ServiceAt(configurations, found) ==
    /\ instant = Epoch
    /\ settings \in configurations
    /\ conversations \in [Conversations -> found]
    /\ dedupeStore = {}
    /\ preferencesStore = NoPreferences
    /\ nudgeQueue = [c \in Conversations |-> NoNudge]
    /\ timers = {}
    /\ served = 0
    /\ handlers = [s \in Slots |-> NoHandler]
    /\ slack = <<>>

ServiceIdle ==
    ServiceAt({Settings("required", FALSE, 0)}, {Conversation("open", {}, "a1", "")})

\* A webhook notification about c1, by the fields extractAssignmentInfo and
\* handleWebhook read.
Payload(id, topic, created_at) ==
    [id |-> id, topic |-> topic, created_at |-> created_at,
     item |-> "data.item", item_id |-> "c1", conversation_id |-> "",
     admin_assignee_id |-> "", admin_assignee |-> Nobody, data_admin_assignee_id |-> "",
     team_assignee_id |-> "", parts |-> <<>>, assignee |-> Nobody,
     last_assignment_at |-> 0]

Part(part_type, to, author) ==
    [part_type |-> part_type,
     assigned_to |-> [type |-> to[1], id |-> to[2], email |-> to[3]],
     author |-> [type |-> author[1], id |-> author[2], email |-> author[3]]]

Assigned == "conversation.admin.assigned"

(***************************************************************************)
(* sla-monitor-enhanced.js: getSLAStats over the rows getAllSLATickets      *)
(* builds.  A row is given by the fields the function reads; a missing     *)
(* deadline is 0 and a missing assignee name is "".                        *)
(***************************************************************************)
Rows ==
    [sla_status : {"active", "hit"}, deadline : {0, Epoch}, is_overdue : {FALSE},
     assignee_name : {"", "Ann", "Bob"}, sla_name : {"FRT"},
     has_unwarranted_tag : {FALSE}]

\* Lines 717-727: the assignments of an agent in the tracking table; entries
\* without a name are passed over.
Assignments(tracking, agent) ==
    Cardinality({t \in DOMAIN tracking :
                    /\ tracking[t].exists
                    /\ "assignee_name" \in DOMAIN tracking[t]
                    /\ tracking[t].assignee_name = agent})

\* Lines 687-801.
getSLAStats(tickets, tracking, channel) ==
    LET named(agent) == {i \in DOMAIN tickets : tickets[i].assignee_name = agent}
        agents == {tickets[i].assignee_name : i \in DOMAIN tickets} \ {""}
        among(accepted(_)) == Cardinality({i \in DOMAIN tickets : accepted(tickets[i])})
        with(agent, accepted(_)) == Cardinality({i \in named(agent) : accepted(tickets[i])})
        active(t) == t.sla_status = "active"
        missed(t) == t.sla_status = "missed"
        hit(t) == t.sla_status = "hit"
        overdue(t) == t.is_overdue
        unwarranted(t) == t.has_unwarranted_tag
        lapsed(t) == t.is_overdue /\ t.sla_status = "active"
    IN  [threw |-> FALSE,
         enabled |-> channel,
         total_tracked |-> Len(tickets),
         active |-> among(active),
         missed |-> among(missed),
         hit |-> among(hit),
         overdue |-> among(lapsed),
         unwarranted |-> among(unwarranted),
         agent_stats |->
             [agent \in agents |->
                 [total |-> Cardinality(named(agent)),
                  total_assignments |-> Assignments(tracking, agent),
                  hit |-> with(agent, hit),
                  missed |-> with(agent, missed),
                  active |-> with(agent, active),
                  overdue |-> with(agent, overdue),
                  unwarranted |-> with(agent, unwarranted)]],
         sla_type_stats |->
             [name \in {tickets[i].sla_name : i \in DOMAIN tickets} |->
                 [total |-> Cardinality({i \in DOMAIN tickets : tickets[i].sla_name = name})]]]

\* Payloads handed to extractAssignmentInfo: every combination of the places
\* in which a conversation id, an admin and a team may stand.
PartLists ==
    {<<>>,
     <<Part("comment", <<"none", "", "">>, <<"admin", "a2", "bob@x.io">>)>>,
     <<Part("assignment", <<"admin", "a2", "bob@x.io">>, <<"none", "", "">>)>>,
     <<Part("assignment", <<"team", "team_9", "">>, <<"none", "", "">>)>>,
     <<Part("assignment", <<"team", "team_9", "">>, <<"admin", "a2", "bob@x.io">>)>>,
     <<Part("default_assignment", <<"other", "a2", "">>, <<"bot", "b1", "">>)>>,
     <<Part("assignment", <<"team", "team_9", "">>, <<"none", "", "">>),
       Part("assignment", <<"admin", "a2", "">>, <<"none", "", "">>)>>,
     <<Part("assignment", <<"admin", "a2", "">>, <<"none", "", "">>),
       Part("assignment", <<"team", "team_9", "">>, <<"none", "", "">>)>>}

Somebody == [kind : {"string", "object"}, id : {"a1"}, email : {"ann@x.io"}]

ExtractionPayloads ==
    {p \in [id : {"w1"}, topic : {Assigned}, created_at : {Epoch + 1},
            item : {"data.item", "item", "data", "none"},
            item_id : {"", "c1"}, conversation_id : {"", "c1"},
            admin_assignee_id : {"", "a1"},
            admin_assignee : {Nobody, [kind |-> "object", id |-> "", email |-> ""]}
                                \cup Somebody,
            data_admin_assignee_id : {"", "a1"},
            team_assignee_id : {"", "team_9"},
            parts : PartLists,
            assignee : {Nobody} \cup Somebody,
            last_assignment_at : {0, Epoch}] :
        \* payload.data is the item itself when the item is found there
        p.item = "data" => p.data_admin_assignee_id = p.admin_assignee_id}

\* What Intercom's admin endpoint answers for an admin id: the address of
\* the admin, or none.
AdminAnswers(adminId) ==
    IF adminId = "a1" THEN {"ann@x.io", ""}
    ELSE IF adminId = "a2" THEN {"bob@x.io"}
    ELSE {""}

\* Lines 305-311: an @intercom-mail.com address is mapped to EMAIL_DOMAIN,
\* left at its default.
mapEmail(email) ==
    IF email = "ann@intercom-mail.com" THEN "ann@staytuned.digital" ELSE email

\* Lines 369-388: whether the Fin gate lets the notification pass.
finGateOpen(mode, finCheck) == TRUE

finGate(mode, finCheck) == ~(mode = "required" /\ ~finCheck.involved)

\* Lines 281-290.
teamOnly(info, fallback) == info.teamAssigneeId # "" /\ info.assigneeId = "" /\ ~fallback

\* Lines 223-226 of handleWebhook: the conversation id of the fallback fetch.
fallbackId(payload) ==
    IF payload.item # "none" /\ payload.item_id # "" THEN payload.item_id
    ELSE payload.conversation_id

\* The notifications Intercom may send about conversation c1 as it stood
\* when it was assigned: to an admin, with or without the statistics of the
\* conversation in the payload, or to a team only, with or without the part
\* that records who made the assignment.
Webhooks(conversation) ==
    LET plain(id) == [Payload(id, Assigned, Epoch + 1) EXCEPT
                         !.admin_assignee_id = conversation.admin_assignee_id,
                         !.team_assignee_id = conversation.team_assignee_id]
    IN  IF conversation.admin_assignee_id # ""
        THEN {[plain(id) EXCEPT !.last_assignment_at = at] :
                 id \in {"w1", "w2"}, at \in {0, conversation.last_assignment_at}}
             \cup {Payload("w1", "conversation.user.replied", Epoch + 1)}
        ELSE {plain(id) : id \in {"w1", "w2"}}
             \cup {[plain("w1") EXCEPT !.parts =
                       <<Part("assignment", <<"team", conversation.team_assignee_id, "">>,
                              <<"admin", "a2", "">>)>>]}

(***************************************************************************)
(* nudge.js.  A timer of setTimeout is identified by the instant it is due. *)
(***************************************************************************)
Timer(conversationId, assigneeEmail, dueAt) ==
    [conversationId |-> conversationId, assigneeEmail |-> assigneeEmail,
     dueAt |-> dueAt, stage |-> "pending", lastAssignmentAt |-> 0]

\* Lines 66-73: clearTimeout stops a timer that has not fired yet; the entry
\* is deleted either way.
cancelNudge(entries, pending, conversationId) ==
    IF entries[conversationId].scheduled
    THEN [queue |-> [entries EXCEPT ![conversationId] = NoNudge],
          timers |-> {t \in pending :
                         ~(/\ t.stage = "pending"
                           /\ t.conversationId = conversationId
                           /\ t.dueAt = entries[conversationId].timeoutId)}]
    ELSE [queue |-> entries, timers |-> pending]

\* Lines 33-61; SLA_NUDGE_MINUTES is 0 when the feature is disabled.
scheduleNudge(entries, pending, conversationId, assigneeEmail, minutes, at) ==
    IF minutes <= 0 THEN [queue |-> entries, timers |-> pending]
    ELSE LET cancelled == cancelNudge(entries, pending, conversationId)
             dueAt == at + minutes * 60
         IN  [queue |-> [cancelled.queue EXCEPT ![conversationId] =
                            [scheduled |-> TRUE, timeoutId |-> dueAt,
                             assigneeEmail |-> assigneeEmail, scheduledAt |-> at]],
              timers |-> cancelled.timers
                            \cup {Timer(conversationId, assigneeEmail, dueAt)}]

\* Lines 102-109 of checkAndSendNudge.
hasAdminReply(conversation) ==
    conversation.admin_reply_at # 0
        /\ conversation.admin_reply_at > conversation.last_assignment_at

\* sendAssignmentDM (slack.js): what reaches Slack.  The Slack user is
\* found and the DM posted, no user is found for the address (the fallback
\* channel is used when configured), the post fails, or a request throws.
SendOutcomes == {"dm", "nouser", "failed", "throw"}

sendAssignmentDM(outcome, fallback) ==
    [threw |-> outcome = "throw",
     success |-> outcome = "dm" \/ (outcome = "nouser" /\ fallback),
     usedFallback |-> outcome = "nouser" /\ fallback]
(***************************************************************************)
(* Initial state: a freshly started process that has loaded sla-state.json, *)
(* which either does not exist yet or holds the record an earlier run wrote *)
(* for the ticket when it was assigned.                                     *)
(***************************************************************************)
InitialTickets ==
    [sla_status : {"active"},
     slaOn : {"ticket", "conversation"},
     first_assignment_at : {0, Epoch},
     last_assignment_at : {0, Epoch},
     admin_assignee_id : {0, 1},
     updated_at : {Epoch},
     created_at : {Epoch},
     snoozed_until : {0},
     category : {"open"}]

InitialFile(tickets, stored) ==
    [t \in Tickets |->
        IF stored
        THEN [StateUpdate(Evaluate([tickets[t] EXCEPT !.updated_at = Epoch], <<>>, Epoch),
                          ArrayOf[t])
                 EXCEPT !.alert_history = <<>>]
        ELSE NoRecord]

StartedAt(events, instants) ==
    /\ now \in instants
    /\ upstream \in [Tickets -> {u \in InitialTickets :
                        /\ u.first_assignment_at = u.last_assignment_at
                        /\ (u.admin_assignee_id = 0) = (u.first_assignment_at = 0)}]
    /\ slaChannel \in BOOLEAN
    /\ \E stored \in BOOLEAN :
          /\ slaStateFile = InitialFile(upstream, stored)
          /\ slaStateCache = LoadedCache(slaStateFile)
          /\ heap = LoadedHeap(slaStateFile)
    /\ pc = [p \in Passes |-> "idle"]
    /\ queue = [p \in Passes |-> <<>>]
    /\ frame = [p \in Passes |-> NoFrame]
    /\ writing = [p \in Passes |-> NoWrite]
    /\ delivered = {}
    /\ duplicated = {}
    /\ failed = {}
    /\ ticks = 0
    /\ budget = events

Started(events) == StartedAt(events, {Epoch + FiveMinutes})

\* No pass of the driver has run: state.json as an earlier run left it, or
\* not written yet.
DriverIdle(files) ==
    /\ stateFile \in files
    /\ processedAssignments = {}
    /\ stage = "none"
    /\ local = [currentTimestamp |-> 0, lastCheckTime |-> 0]
    /\ pass = NoPass
    /\ messages = {}

CalendarIdle(configs) ==
    /\ businessHours \in configs
    /\ calendarCall = NoCall

\* Neither update-assignees.js nor the dashboard is running.
NoSiblings ==
    /\ updater = NoUpdater
    /\ dashboard = <<>>

\* The dashboard has loaded the store, update-assignees.js is not running.
SiblingsIdle ==
    /\ updater = NoUpdater
    /\ dashboard = slaStateFile

\* The import has finished, both files were readable.
StartupDone ==
    /\ disk = [sla |-> "ok", tracking |-> "ok"]
    /\ assignmentTrackingFile = NoTracking
    /\ assignmentTrackingCache = NoTracking
    /\ loading = [sla |-> "done", tracking |-> "done"]

\* The engine taken alone: polled inside business hours, no process beside
\* it.
EngineOnly ==
    /\ DriverIdle({DefaultState})
    /\ CalendarIdle({DefaultConfig(BusinessHoursEnabled, Zone(540), 0)})
    /\ NoSiblings
    /\ StartupDone
    /\ NoCalls
    /\ ServiceIdle

\* state.json as the driver may find it: missing, written by an earlier run
\* that ended at Epoch, or holding the notice of the assignment at Epoch.
DriverFiles ==
    {DefaultState,
     [DefaultState EXCEPT !.exists = TRUE, !.lastCheckTime = Epoch],
     [DefaultState EXCEPT !.exists = TRUE, !.lastCheckTime = Epoch,
                          !.notifiedAssignments["t1"] =
                              [present |-> TRUE, assigneeId |-> 1,
                               assignmentTimestamp |-> Epoch, notifiedAt |-> Epoch]]}

\* The calendars of the driver: at the start of the run it is 00:21 on a
\* Thursday in UTC and 09:21 in the zone nine hours east of it.
DriverConfigs == {DefaultConfig(TRUE, Zone(0), 0), DefaultConfig(TRUE, Zone(540), 0)}

InitDriver ==
    /\ Started(MaxDriverEvents)
    /\ DriverIdle(DriverFiles)
    /\ CalendarIdle(DriverConfigs)
    /\ NoSiblings
    /\ StartupDone
    /\ NoCalls
    /\ ServiceIdle

InitSiblings ==
    /\ Started(MaxSiblingEvents)
    /\ DriverIdle({DefaultState})
    /\ CalendarIdle({DefaultConfig(BusinessHoursEnabled, Zone(540), 0)})
    /\ SiblingsIdle
    /\ StartupDone
    /\ NoCalls
    /\ ServiceIdle

\* The instants at which the calendar is asked: from Sunday 1970-01-04
\* 00:00 UTC on, every half hour and the second before it.
CalendarInstants ==
    {3 * OneDay + k * 1800 - e : k \in 0..CalendarSteps, e \in {0, 1}}

Zones == {Zone(0), Zone(-300), Zone(330), Zone(540), UnknownZone}

Windows ==
    {<<Time(9, 0), Time(17, 0)>>, <<Time(8, 30), Time(12, 15)>>, <<Time(0, 0), Time(8, 0)>>}

CalendarConfigs ==
    {getBusinessHoursConfig(enabled, timezone, midnight, w[1], w[2], {1, 2, 3, 4, 5}) :
        enabled \in BOOLEAN, timezone \in Zones, midnight \in {0, 24}, w \in Windows}

InitCalendar ==
    /\ StartedAt(0, CalendarInstants)
    /\ slaChannel
    /\ slaStateFile = [t \in Tickets |-> NoRecord]
    /\ \A t \in Tickets : upstream[t].admin_assignee_id = 0 /\ upstream[t].slaOn = "ticket"
    /\ DriverIdle({DefaultState})
    /\ CalendarIdle(CalendarConfigs)
    /\ NoSiblings
    /\ StartupDone
    /\ NoCalls
    /\ ServiceIdle

\* The module is being imported: both loads are under way, the tables are
\* empty, the files are as an earlier run or an accident left them.
Importing(events) ==
    /\ now = Epoch + FiveMinutes
    /\ upstream \in [Tickets -> {u \in InitialTickets :
                        u.first_assignment_at = Epoch /\ u.last_assignment_at = Epoch
                        /\ u.admin_assignee_id = 1}]
    /\ slaChannel \in BOOLEAN
    /\ \E stored \in BOOLEAN : slaStateFile = InitialFile(upstream, stored)
    /\ slaStateCache = LoadedCache([t \in Tickets |-> NoRecord])
    /\ heap = LoadedHeap([t \in Tickets |-> NoRecord])
    /\ pc = [p \in Passes |-> "idle"]
    /\ queue = [p \in Passes |-> <<>>]
    /\ frame = [p \in Passes |-> NoFrame]
    /\ writing = [p \in Passes |-> NoWrite]
    /\ delivered = {}
    /\ duplicated = {}
    /\ failed = {}
    /\ ticks = 0
    /\ budget = events
    /\ DriverIdle({DefaultState})
    /\ CalendarIdle({DefaultConfig(BusinessHoursEnabled, Zone(540), 0)})
    /\ NoSiblings
    /\ disk \in [sla : {"ok", "missing", "corrupt"}, tracking : {"ok", "missing", "corrupt"}]
    /\ assignmentTrackingFile \in
          {NoTracking, [t \in Tickets |-> [exists |-> TRUE, assigned_at |-> Epoch]]}
    /\ assignmentTrackingCache = NoTracking
    /\ loading = [sla |-> "reading", tracking |-> "reading"]
    /\ NoCalls
    /\ ServiceIdle

InitStartup == Importing(0)

Init == Started(MaxEvents) /\ EngineOnly

InitSequential == Started(MaxSerialEvents) /\ EngineOnly

(***************************************************************************)
(* The environment: the clock and the ticketing system                     *)
(***************************************************************************)
\* The clock is observed one second after the previous observation, then
\* five minutes later, and so on.
Tick ==
    /\ budget > 0
    /\ budget' = budget - 1
    /\ now' = now + (IF ticks % 2 = 0 THEN 1 ELSE FiveMinutes)
    /\ ticks' = ticks + 1
    /\ UNCHANGED <<upstream, slaChannel, slaStateCache, heap, slaStateFile, pc,
                   queue, frame, writing, delivered, duplicated, failed>>

Upstream(t, u) ==
    /\ budget > 0
    /\ budget' = budget - 1
    /\ upstream' = [upstream EXCEPT ![t] = [u EXCEPT !.updated_at = now]]
    /\ UNCHANGED <<now, slaChannel, slaStateCache, heap, slaStateFile, pc,
                   queue, frame, writing, delivered, duplicated, failed, ticks>>

\* The ticket is assigned, or reassigned to another admin.
Assign(t) ==
    Upstream(t, [upstream[t] EXCEPT
        !.first_assignment_at = IF @ = 0 THEN now ELSE @,
        !.last_assignment_at = now,
        !.admin_assignee_id = 1])

\* The SLA is removed, missed or (on re-open) active again.
SetSlaStatus(t, s) ==
    /\ s # upstream[t].sla_status
    /\ Upstream(t, [upstream[t] EXCEPT !.sla_status = s])

Snooze(t) ==
    /\ upstream[t].snoozed_until = 0
    /\ Upstream(t, [upstream[t] EXCEPT !.snoozed_until = now + SnoozeFor])

SetCategory(t, c) ==
    /\ c # upstream[t].category
    /\ Upstream(t, [upstream[t] EXCEPT !.category = c])

(***************************************************************************)
(* checkSLAStatus                                                          *)
(***************************************************************************)
\* The ticket object poll() hands to checkSLAStatus (poll.js lines 236-334):
\* the full ticket with the SLA of its conversation merged in when the
\* conversation could be fetched, or the search result when getTicket threw.
Snapshot(p, ticketOk, convOk) ==
    IF ticketOk THEN FullTicket(Head(queue[p]).id, convOk) ELSE Head(queue[p])

\* poll() after a checkSLAStatus call returned: the next ticket of the
\* search result, or the end of the pass.
AfterCall(rest) == IF rest = <<>> THEN "idle" ELSE "loop"

\* The locals of a call suspended at `await saveSLAState()`.
SaveFrame(ticket, at, e, again, success, alerted) ==
    [active |-> TRUE, awaiting |-> "save", ticket |-> ticket, at |-> at,
     violationType |-> e.violationType, shouldAlert |-> e.shouldAlert,
     deadline |-> e.deadline, again |-> again, success |-> success,
     result |-> Result(alerted, e.violationType, e.deadline)]

\* saveSLAState up to its await: the cache is serialised at the call.
BeginSave(p, cache, h) ==
    /\ writing' = [writing EXCEPT ![p] = [pending |-> TRUE, data |-> Serialize(cache, h)]]
    /\ pc' = [pc EXCEPT ![p] = "save"]

NoViolation == [violationType |-> "none", shouldAlert |-> FALSE, deadline |-> 0]

\* Lines 385-392: the ticket carries no SLA.
CheckNoSLA(p, ticketOk, convOk) ==
    /\ pc[p] = "loop"
    /\ queue[p] # <<>>
    /\ LET ticket == Snapshot(p, ticketOk, convOk)
           t == ticket.id
       IN  /\ ticket.sla_status = "none"
           /\ IF slaStateCache[t].exists
              THEN LET cache == [slaStateCache EXCEPT ![t] = NoRecord]
                       h == Collect(heap, cache, frame)
                   IN  /\ slaStateCache' = cache
                       /\ heap' = h
                       /\ frame' = [frame EXCEPT ![p] =
                              SaveFrame(ticket, now, NoViolation, FALSE, FALSE, FALSE)]
                       /\ BeginSave(p, cache, h)
              ELSE /\ pc' = [pc EXCEPT ![p] = AfterCall(Tail(queue[p]))]
                   /\ UNCHANGED <<slaStateCache, heap, frame, writing>>
    /\ queue' = [queue EXCEPT ![p] = Tail(@)]
    /\ UNCHANGED <<now, upstream, slaChannel, slaStateFile, delivered,
                   duplicated, failed, ticks, budget>>

\* Lines 394-477 and 499-503: the ticket carries an SLA.  The call either
\* suspends in sendBlockKitMessage or stores the record and saves.
CheckSLA(p, ticketOk, convOk) ==
    /\ pc[p] = "loop"
    /\ queue[p] # <<>>
    /\ LET ticket == Snapshot(p, ticketOk, convOk)
           t == ticket.id
           previousState == slaStateCache[t]
           array == IF previousState.exists THEN previousState.alert_history
                    ELSE FreshArray
           e == Evaluate(ticket, heap[array], now)
           stateUpdate == StateUpdate(e, array)
           again == AlertKey(t, e.violationType, e.deadline) \in failed
       IN  /\ ticket.sla_status # "none"
           /\ IF e.shouldAlert /\ slaChannel
              THEN /\ frame' = [frame EXCEPT ![p] =
                          [active |-> TRUE, awaiting |-> "send", ticket |-> ticket,
                           at |-> now, violationType |-> e.violationType,
                           shouldAlert |-> e.shouldAlert, deadline |-> e.deadline,
                           again |-> again, stateUpdate |-> stateUpdate]]
                   /\ pc' = [pc EXCEPT ![p] = "send"]
                   /\ UNCHANGED <<slaStateCache, heap, writing>>
              ELSE LET cache == [slaStateCache EXCEPT ![t] = stateUpdate]
                       h == Collect(heap, cache, frame)
                   IN  /\ slaStateCache' = cache
                       /\ heap' = h
                       /\ frame' = [frame EXCEPT ![p] =
                              SaveFrame(ticket, now, e, again, FALSE,
                                        e.shouldAlert /\ slaChannel)]
                       /\ BeginSave(p, cache, h)
    /\ queue' = [queue EXCEPT ![p] = Tail(@)]
    /\ UNCHANGED <<now, upstream, slaChannel, slaStateFile, delivered,
                   duplicated, failed, ticks, budget>>

\* The entry pushed whatever the send did, or whenever it did not throw:
\* what C6 and C5 must tell apart.
RecordedAlways(outcome) == TRUE

RecordedUnlessThrown(outcome) == outcome # "throw"

\* Line 479: the alert is recorded when sendBlockKitMessage resolved to true
\* ("false": it resolved to false; "throw": it rejected).
Recorded(outcome) == outcome = "ok"

\* Lines 477-492 and 494-503: sendBlockKitMessage settles; the message
\* reached the channel when it resolved to true.
SendDone(p, outcome) ==
    /\ pc[p] = "send"
    /\ LET f == frame[p]
           su == f.stateUpdate
           t == f.ticket.id
           entry == [type |-> f.violationType, timestamp |-> f.at,
                     deadline |-> f.deadline, status |-> su.sla_status]
           key == AlertKey(t, f.violationType, f.deadline)
           e == [violationType |-> f.violationType, shouldAlert |-> f.shouldAlert,
                 deadline |-> f.deadline]
           frames == [frame EXCEPT ![p] =
                         SaveFrame(f.ticket, f.at, e, f.again, outcome = "ok", TRUE)]
           cache == [slaStateCache EXCEPT ![t] = su]
           pushed == IF Recorded(outcome)
                     THEN [heap EXCEPT ![su.alert_history] = Append(@, entry)]
                     ELSE heap
           h == Collect(pushed, cache, frames)
       IN  /\ slaStateCache' = cache
           /\ heap' = h
           /\ frame' = frames
           /\ delivered' = IF outcome = "ok" THEN delivered \cup {key} ELSE delivered
           /\ duplicated' = IF outcome = "ok" /\ key \in delivered
                            THEN duplicated \cup {key} ELSE duplicated
           /\ failed' = IF outcome = "ok" THEN failed ELSE failed \cup {key}
           /\ BeginSave(p, cache, h)
    /\ UNCHANGED <<now, upstream, slaChannel, slaStateFile, queue, ticks,
                   budget>>

\* saveSLAState letting the error of writeFile out: what C14 must tell
\* apart.
saveSLAStateRethrowing(file, data, written) ==
    [threw |-> ~written, file |-> IF written THEN data ELSE file]

\* saveSLAState after its await (lines 58-61): the error of a failed write
\* is logged and swallowed.
saveSLAState(file, data, written) ==
    [threw |-> FALSE, file |-> IF written THEN data ELSE file]

\* A call of checkSLAStatus that ended by throwing.
Thrown == [active |-> FALSE, threw |-> TRUE]

\* saveSLAState settles, then checkSLAStatus returns to poll().  Were the
\* call to throw, nothing in poll() would give the rest of the batch
\* another chance.
SaveDone(p, written) ==
    /\ pc[p] = "save"
    /\ LET saved == saveSLAState(slaStateFile, writing[p].data, written)
       IN  /\ slaStateFile' = saved.file
           /\ frame' = [frame EXCEPT ![p] = IF saved.threw THEN Thrown ELSE NoFrame]
           /\ pc' = [pc EXCEPT ![p] = IF saved.threw THEN "idle" ELSE AfterCall(queue[p])]
           /\ queue' = [queue EXCEPT ![p] = IF saved.threw THEN <<>> ELSE @]
    /\ writing' = [writing EXCEPT ![p] = NoWrite]
    /\ UNCHANGED <<now, upstream, slaChannel, slaStateCache, heap,
                   delivered, duplicated, failed, ticks, budget>>

(***************************************************************************)
(* poll                                                                    *)
(***************************************************************************)
\* The tickets a search may return, in any order.  A pass whose search finds
\* nothing touches none of the state modelled here.
SearchOrders ==
    {q \in UNION {[1..n -> Tickets] : n \in 1..Cardinality(Tickets)} :
        \A i, j \in DOMAIN q : i # j => q[i] # q[j]}

\* poll() up to the end of searchTickets (lines 180-222), inside business
\* hours.
Poll(p, order, withStats) ==
    /\ pc[p] = "idle"
    /\ budget > 0
    /\ budget' = budget - 1
    /\ queue' = [queue EXCEPT ![p] =
                    [i \in DOMAIN order |-> SearchResult(order[i], withStats)]]
    /\ pc' = [pc EXCEPT ![p] = "loop"]
    /\ UNCHANGED <<now, upstream, slaChannel, slaStateCache, heap, slaStateFile,
                   frame, writing, delivered, duplicated, failed, ticks>>

\* A timer fires.  startPolling (lines 392-398) does not wait for the
\* previous pass; the passes running at once take the slots in order.
PollStart(p, order, withStats) ==
    /\ \A q \in Passes : PassRank[q] < PassRank[p] => pc[q] # "idle"
    /\ Poll(p, order, withStats)

\* The timer fires after the previous pass has ended.
PollAfterPass(order, withStats) ==
    /\ \A q \in Passes : pc[q] = "idle"
    /\ Poll("p1", order, withStats)

(***************************************************************************)
(* Process restart: every pass is gone, the module is imported again and   *)
(* loadSLAState (lines 32-50) fills the empty cache from the file.  A       *)
(* restart of an idle process whose file is up to date changes nothing.    *)
(***************************************************************************)
Restart ==
    /\ budget > 0
    /\ budget' = budget - 1
    /\ \/ \E p \in Passes : pc[p] # "idle"
       \/ Serialize(slaStateCache, heap) # slaStateFile
    /\ slaStateCache' = LoadedCache(slaStateFile)
    /\ heap' = LoadedHeap(slaStateFile)
    /\ pc' = [p \in Passes |-> "idle"]
    /\ queue' = [p \in Passes |-> <<>>]
    /\ frame' = [p \in Passes |-> NoFrame]
    /\ writing' = [p \in Passes |-> NoWrite]
    /\ UNCHANGED <<now, upstream, slaChannel, slaStateFile, delivered,
                   duplicated, failed, ticks>>

(***************************************************************************)
(* poll() as a whole (poll.js lines 180-363), one pass at a time.  The      *)
(* stretches of poll() outside checkSLAStatus touch nothing another         *)
(* process of this specification touches, so each is one action; what the  *)
(* file system and the network do is an input of the action.               *)
(***************************************************************************)
Driver == "p1"

\* Everything poll() persists.
Persisted == [state |-> stateFile, sla |-> slaStateFile]

\* What the file system and the network do at the start and at the end of a
\* pass; a call that is not reached is given the good outcome.
StartIO ==
    {io \in [read : BOOLEAN, write : BOOLEAN, search : BOOLEAN] :
        (~io.write \/ ~io.read) => io.search}

EndIO == {io \in [read : BOOLEAN, write : BOOLEAN] : ~io.read => io.write}

\* The tickets searchTickets returns (tickets.js lines 27-45): those created
\* at or after sinceTimestamp.
Created(t) == IF t \in Tickets THEN upstream[t].created_at ELSE UntrackedTicket(t).created_at

Matching(sinceTimestamp) == {t \in Searched : Created(t) >= sinceTimestamp}

Orders(S) ==
    {q \in [1..Cardinality(S) -> S] : \A i, j \in DOMAIN q : i # j => q[i] # q[j]}

Found(t, withStats) ==
    IF t \in Tickets THEN SearchResult(t, withStats) ELSE UntrackedTicket(t)

\* Lines 186-196: outside business hours the pass logs the next start and
\* returns.
PollSkipped ==
    /\ stage = "none"
    /\ pc[Driver] = "idle"
    /\ budget > 0
    /\ budget' = budget - 1
    /\ ~isBusinessHours(now, businessHours)
    /\ calendarCall' = [fn |-> "getNextBusinessHoursStart", at |-> now,
                        result |-> getNextBusinessHoursStart(now, businessHours)]
    /\ pass' = Pass("skipped", <<>>, {}, Persisted)
    /\ UNCHANGED <<now, upstream, slaChannel, slaStateCache, heap, slaStateFile,
                   pc, queue, frame, writing, delivered, duplicated, failed, ticks>>
    /\ UNCHANGED <<stateFile, processedAssignments, stage, local, messages>>
    /\ UNCHANGED <<businessHours, siblings, startup, pure, service>>

\* Lines 198-222: initializeState, getLastCheckTime and searchTickets.  An
\* error in any of them lands in the catch of line 359.
PollBegin(withStats, io) ==
    /\ stage = "none"
    /\ pc[Driver] = "idle"
    /\ budget > 0
    /\ budget' = budget - 1
    /\ isBusinessHours(now, businessHours)
    /\ LET created == ~stateFile.exists /\ io.write
           initialized == IF created THEN initializeState(stateFile, now) ELSE stateFile
           threw == \/ stateFile.exists /\ ~io.read
                    \/ ~stateFile.exists /\ ~io.write
                    \/ ~io.read
                    \/ ~io.search
           state == getState(initialized)
           lastCheckTime == IF state.lastCheckTime # 0 THEN state.lastCheckTime
                            ELSE now - FiveMinutes
       IN  /\ stateFile' = initialized
           /\ IF threw
              THEN /\ pass' = Pass("failed", <<>>, {}, Persisted)
                   /\ UNCHANGED <<pc, queue, stage, local>>
              ELSE \E order \in Orders(Matching(lastCheckTime)) :
                   /\ queue' = [queue EXCEPT ![Driver] =
                                   [i \in DOMAIN order |-> Found(order[i], withStats)]]
                   /\ pc' = [pc EXCEPT ![Driver] = AfterCall(order)]
                   /\ stage' = IF order = <<>> THEN "finish" ELSE "ticket"
                   /\ local' = [currentTimestamp |-> now, lastCheckTime |-> lastCheckTime]
                   /\ pass' = Pass("running", [i \in DOMAIN order |-> order[i]], {},
                                   Persisted)
    /\ UNCHANGED <<now, upstream, slaChannel, slaStateCache, heap, slaStateFile,
                   frame, writing, delivered, duplicated, failed, ticks>>
    /\ UNCHANGED <<processedAssignments, messages>>
    /\ UNCHANGED <<calendar, siblings, startup, pure, service>>

\* The catch of line 359: the pass is over, the rest of the batch is dropped.
Aborted ==
    /\ pc' = [pc EXCEPT ![Driver] = "idle"]
    /\ queue' = [queue EXCEPT ![Driver] = <<>>]
    /\ stage' = "none"
    /\ pass' = [pass EXCEPT !.result = "failed"]

\* Line 228: processTicket for the next ticket of the batch, with whatever
\* the calls to the outside do.
ProcessTicketWith(outcomes) ==
    /\ stage = "ticket"
    /\ pc[Driver] = "loop"
    /\ queue[Driver] # <<>>
    /\ LET ticket == Head(queue[Driver])
           full == IF ticket.id \in Tickets THEN FullTicket(ticket.id, TRUE)
                   ELSE UntrackedTicket(ticket.id)
       IN  \E done \in {processTicket(ticket, full, local.lastCheckTime, stateFile,
                                      processedAssignments, io, now) : io \in outcomes} :
           /\ stateFile' = done.state
           /\ processedAssignments' = done.processedAssignments
           /\ messages' = messages \cup done.messages
           /\ IF done.threw
              THEN Aborted
              ELSE /\ queue' = [queue EXCEPT ![Driver] = <<done.ticket>> \o Tail(@)]
                   /\ stage' = "sla"
                   /\ UNCHANGED <<pc, pass>>
    /\ UNCHANGED <<now, upstream, slaChannel, slaStateCache, heap, slaStateFile,
                   frame, writing, delivered, duplicated, failed, ticks, budget>>
    /\ UNCHANGED <<local, calendar, siblings, startup, pure, service>>

ProcessTicket == ProcessTicketWith(TicketIO)

\* poll() around a step of checkSLAStatus: when the call has returned, the
\* loop goes on with the next ticket or ends; when it threw, the catch of
\* line 359 ends the pass.
Around(id) ==
    /\ IF frame'[Driver] = Thrown
       THEN /\ stage' = "none"
            /\ pass' = [pass EXCEPT !.result = "failed"]
       ELSE IF pc'[Driver] \in {"send", "save"}
       THEN UNCHANGED <<stage, pass>>
       ELSE /\ stage' = IF queue'[Driver] = <<>> THEN "finish" ELSE "ticket"
            /\ pass' = [pass EXCEPT !.handled = @ \cup {id}]
    /\ UNCHANGED <<stateFile, processedAssignments, local, messages>>
    /\ UNCHANGED <<calendar, siblings, startup, pure, service>>

\* Lines 236-334 for a tracked ticket: the call of checkSLAStatus.
CheckTicket(ticketOk, convOk) ==
    /\ stage = "sla"
    /\ queue[Driver] # <<>>
    /\ Head(queue[Driver]).id \in Tickets
    /\ \/ CheckNoSLA(Driver, ticketOk, convOk)
       \/ CheckSLA(Driver, ticketOk, convOk)
    /\ Around(Head(queue[Driver]).id)

\* Lines 236-334 for the ticket that carries no SLA and has no record:
\* checkSLAStatus returns at line 391 having touched nothing.
CheckUntracked ==
    /\ stage = "sla"
    /\ pc[Driver] = "loop"
    /\ queue[Driver] # <<>>
    /\ Head(queue[Driver]).id \notin Tickets
    /\ queue' = [queue EXCEPT ![Driver] = Tail(@)]
    /\ pc' = [pc EXCEPT ![Driver] = AfterCall(Tail(queue[Driver]))]
    /\ UNCHANGED <<now, upstream, slaChannel, slaStateCache, heap, slaStateFile,
                   frame, writing, delivered, duplicated, failed, ticks, budget>>
    /\ Around(Head(queue[Driver]).id)

\* The call of checkSLAStatus goes on after an await.
ResumeTicket ==
    /\ stage = "sla"
    /\ frame[Driver].active
    /\ \/ \E outcome \in {"ok", "false", "throw"} : SendDone(Driver, outcome)
       \/ \E written \in BOOLEAN : SaveDone(Driver, written)
    /\ Around(frame[Driver].ticket.id)

\* Lines 344-358: updateLastCheckTime and the end of the pass.
PollEnd(io) ==
    /\ stage = "finish"
    /\ stage' = "none"
    /\ IF io.read /\ io.write
       THEN /\ stateFile' = updateLastCheckTime(getState(stateFile), local.currentTimestamp)
            /\ pass' = [pass EXCEPT !.result = "completed"]
            /\ processedAssignments' = IF Cardinality(processedAssignments) > 1000
                                       THEN {} ELSE processedAssignments
       ELSE /\ pass' = [pass EXCEPT !.result = "failed"]
            /\ UNCHANGED <<stateFile, processedAssignments>>
    /\ UNCHANGED engine
    /\ UNCHANGED <<local, messages, calendar, siblings, startup, pure, service>>

(***************************************************************************)
(* The processes beside the poller.  update-assignees.js reads             *)
(* sla-state.json into an object, completes its records from the ticketing *)
(* system (awaiting a request and a pause per ticket) and writes the       *)
(* object back; of a record it touches the assignee, the tags and the      *)
(* ticket metadata, none of which is modelled, so what it writes is what   *)
(* it read.  dashboard-server.js holds a slaStateCache of its own, which   *)
(* it reloads on a timer and before answering, and never writes the file.  *)
(***************************************************************************)
\* update-assignees.js lines 40-47: reloadSLAState, readFile, JSON.parse.
UpdaterRead ==
    /\ ~updater.running
    /\ budget > 0
    /\ budget' = budget - 1
    /\ updater' = [running |-> TRUE, state |-> slaStateFile]
    /\ UNCHANGED <<now, upstream, slaChannel, slaStateCache, heap, slaStateFile,
                   pc, queue, frame, writing, delivered, duplicated, failed, ticks>>
    /\ UNCHANGED <<dashboard, driver, calendar, startup, pure, service>>

\* update-assignees.js line 168: fs.writeFile of the whole object.
UpdaterWrite ==
    /\ updater.running
    /\ slaStateFile' = updater.state
    /\ updater' = NoUpdater
    /\ UNCHANGED <<now, upstream, slaChannel, slaStateCache, heap,
                   pc, queue, frame, writing, delivered, duplicated, failed, ticks,
                   budget>>
    /\ UNCHANGED <<dashboard, driver, calendar, startup, pure, service>>

\* dashboard-server.js lines 22-32 and 53: reloadSLAState in the dashboard
\* process.
DashboardReload ==
    /\ dashboard # slaStateFile
    /\ dashboard' = slaStateFile
    /\ UNCHANGED engine
    /\ UNCHANGED <<updater, driver, calendar, startup, pure, service>>

(***************************************************************************)
(* Module import of sla-monitor-enhanced.js (lines 136-144): loadSLAState   *)
(* and loadAssignmentTracking are started one after the other and run      *)
(* side by side.  `condition` is what readFile and JSON.parse meet: "ok",   *)
(* "missing" (ENOENT) or "corrupt" (any other error).                       *)
(***************************************************************************)
\* loadSLAState without its catch: what C15 must tell apart.
loadSLAStateUnguarded(cache, h, file, condition) ==
    [threw |-> condition # "ok",
     cache |-> IF condition = "ok" THEN LoadedCache(file) ELSE cache,
     heap |-> IF condition = "ok" THEN LoadedHeap(file) ELSE h]

\* Lines 32-50: the cache is cleared and filled only once the file has been
\* read and parsed; any error is logged.
loadSLAState(cache, h, file, condition) ==
    [threw |-> FALSE,
     cache |-> IF condition = "ok" THEN LoadedCache(file) ELSE cache,
     heap |-> IF condition = "ok" THEN LoadedHeap(file) ELSE h]

\* Lines 67-85.
loadAssignmentTracking(cache, file, condition) ==
    [threw |-> FALSE, cache |-> IF condition = "ok" THEN file ELSE cache]

LoadSLAState ==
    /\ loading.sla = "reading"
    /\ LET loaded == loadSLAState(slaStateCache, heap, slaStateFile, disk.sla)
       IN  /\ slaStateCache' = loaded.cache
           /\ heap' = loaded.heap
           /\ loading' = [loading EXCEPT !.sla = IF loaded.threw THEN "failed" ELSE "done"]
    /\ UNCHANGED <<now, upstream, slaChannel, slaStateFile, pc, queue, frame,
                   writing, delivered, duplicated, failed, ticks, budget>>
    /\ UNCHANGED <<disk, assignmentTrackingFile, assignmentTrackingCache>>
    /\ UNCHANGED <<driver, calendar, siblings, pure, service>>

LoadAssignmentTracking ==
    /\ loading.tracking = "reading"
    /\ LET loaded == loadAssignmentTracking(assignmentTrackingCache,
                                            assignmentTrackingFile, disk.tracking)
       IN  /\ assignmentTrackingCache' = loaded.cache
           /\ loading' = [loading EXCEPT !.tracking = IF loaded.threw THEN "failed" ELSE "done"]
    /\ UNCHANGED engine
    /\ UNCHANGED <<disk, assignmentTrackingFile>>
    /\ UNCHANGED <<driver, calendar, siblings, pure, service>>

(***************************************************************************)
(* Calls of business-hours.js at the current instant.                      *)
(***************************************************************************)
IsBusinessHoursCall ==
    /\ calendarCall' = [fn |-> "isBusinessHours", at |-> now,
                        result |-> isBusinessHours(now, businessHours)]
    /\ UNCHANGED engine
    /\ UNCHANGED <<businessHours, driver, siblings, startup, pure, service>>

GetNextBusinessHoursStartCall ==
    /\ calendarCall' = [fn |-> "getNextBusinessHoursStart", at |-> now,
                        result |-> getNextBusinessHoursStart(now, businessHours)]
    /\ UNCHANGED engine
    /\ UNCHANGED <<businessHours, driver, siblings, startup, pure, service>>


(***************************************************************************)
(* Calls of functions that read nothing but their arguments                *)
(***************************************************************************)
GetSLADurationCall ==
    /\ \E name \in SlaNames, env \in DurationEnvs :
          probe' = [fn |-> "getSLADuration", sla_name |-> name, durations |-> env,
                    result |-> getSLADuration(name, env)]
    /\ UNCHANGED <<engine, driver, calendar, siblings, startup, service>>

\* getSLAStats(filteredTickets) for a list of up to MaxRows rows.
GetSLAStatsCall ==
    /\ \E n \in 0..MaxRows : \E tickets \in [1..n -> Rows] :
          probe' = [fn |-> "getSLAStats", tickets |-> tickets,
                    result |-> getSLAStats(tickets, assignmentTrackingCache, slaChannel)]
    /\ UNCHANGED <<engine, driver, calendar, siblings, startup, service>>

\* extractAssignmentInfo(payload) for the payload at hand.
ExtractAssignmentInfoCall ==
    /\ probe.fn = "payload"
    /\ probe' = [fn |-> "extractAssignmentInfo", payload |-> probe.payload,
                 result |-> extractAssignmentInfo(probe.payload)]
    /\ UNCHANGED <<engine, driver, calendar, siblings, startup, service>>

(***************************************************************************)
(* The webhook service.  handleWebhook is one action per stretch of code   *)
(* between two awaits: the delivery up to the first fetch, the fallback    *)
(* fetch of the conversation, the fetch of the admin, the fetch of the     *)
(* conversation, and the send.                                             *)
(***************************************************************************)
\* handleWebhook has returned, or thrown into the catch of server.js, having
\* logged the decision.
Done(payload, decision) == NoHandler

Message(kind, channel, to, webhookId, conversationId, lastAssignmentAt) ==
    [kind |-> kind, channel |-> channel, to |-> to, webhookId |-> webhookId,
     conversationId |-> conversationId, lastAssignmentAt |-> lastAssignmentAt,
     at |-> instant,
     optedOut |-> preferencesStore[toLowerCase(to)] = "out",
     finInvolved |-> isFinInvolved(conversations[conversationId]).involved]

\* Lines 268-297: what follows a successful extraction, up to the await of
\* getAdmin.
Admitted(payload, info) ==
    IF teamOnly(info, settings.FALLBACK_CHANNEL)
    THEN Done(payload, "team_assignment_no_fallback")
    ELSE [pc |-> "admin", payload |-> payload, info |-> info]

\* Lines 196-233: server.js hands a verified payload to handleWebhook.
Deliver(slot, payload) ==
    /\ handlers[slot].pc = "idle"
    /\ \A other \in Slots : handlers[other].pc = "idle" => SlotRank[slot] <= SlotRank[other]
    /\ served < MaxServiceEvents
    /\ served' = served + 1
    /\ LET seen == isWebhookProcessed(dedupeStore, payload.id, instant)
           info == extractAssignmentInfo(payload)
       IN  IF payload.topic # Assigned
           THEN /\ handlers' = [handlers EXCEPT ![slot] = Done(payload, "wrong_topic")]
                /\ UNCHANGED dedupeStore
           ELSE /\ dedupeStore' = seen.store
                /\ handlers' = [handlers EXCEPT ![slot] =
                      IF seen.result THEN Done(payload, "webhook_duplicate")
                      ELSE IF info.found THEN Admitted(payload, info)
                      ELSE IF fallbackId(payload) # ""
                      THEN [pc |-> "fallback", payload |-> payload]
                      ELSE Done(payload, "extraction_failed")]
    /\ UNCHANGED <<instant, settings, conversations, preferencesStore, nudgeQueue,
                   timers, slack>>
    /\ UNCHANGED <<engine, driver, calendar, siblings, startup, pure>>

\* Lines 233-266: the fallback fetch has settled.
FallbackFetched(slot, fetched) ==
    /\ handlers[slot].pc = "fallback"
    /\ LET payload == handlers[slot].payload
           conversation == conversations[fallbackId(payload)]
       IN  handlers' = [handlers EXCEPT ![slot] =
              IF fetched /\ conversation.admin_assignee_id # ""
              THEN Admitted(payload,
                            [found |-> TRUE,
                             conversationId |-> fallbackId(payload),
                             assigneeId |-> conversation.admin_assignee_id,
                             assigneeEmail |-> conversation.admin_email,
                             teamAssigneeId |-> conversation.team_assignee_id,
                             lastAssignmentAt |-> conversation.last_assignment_at])
              ELSE Done(payload, "extraction_failed")]
    /\ UNCHANGED <<instant, settings, conversations, dedupeStore, preferencesStore,
                   nudgeQueue, timers, served, slack>>
    /\ UNCHANGED <<engine, driver, calendar, siblings, startup, pure>>

\* Lines 297-346: getAdmin has settled; answer is the address it gave, or
\* "throw".
AdminFetched(slot, answer) ==
    /\ handlers[slot].pc = "admin"
    /\ LET payload == handlers[slot].payload
           info == handlers[slot].info
           assigneeEmail == IF answer = "throw" THEN info.assigneeEmail
                            ELSE mapEmail(answer)
           notified == dedupe_isAssignmentNotified(dedupeStore, info.conversationId,
                                                   assigneeEmail, info.lastAssignmentAt,
                                                   instant)
       IN  IF assigneeEmail = ""
           THEN /\ handlers' = [handlers EXCEPT ![slot] = Done(payload, "no_assignee_email")]
                /\ UNCHANGED dedupeStore
           ELSE IF notified.result
           THEN /\ handlers' = [handlers EXCEPT ![slot] =
                                   Done(payload, "assignment_already_notified")]
                /\ dedupeStore' = markWebhookProcessed(notified.store, payload.id, instant)
           ELSE /\ handlers' = [handlers EXCEPT ![slot] =
                                   [pc |-> "conversation", payload |-> payload,
                                    info |-> info, assigneeEmail |-> assigneeEmail]]
                /\ dedupeStore' = notified.store
    /\ UNCHANGED <<instant, settings, conversations, preferencesStore, nudgeQueue,
                   timers, served, slack>>
    /\ UNCHANGED <<engine, driver, calendar, siblings, startup, pure>>

\* Lines 346-407: getConversation has settled; the checks up to the call of
\* sendAssignmentDM.
ConversationFetched(slot, fetched) ==
    /\ handlers[slot].pc = "conversation"
    /\ LET payload == handlers[slot].payload
           conversation == conversations[handlers[slot].info.conversationId]
           finCheck == isFinInvolved(conversation)
           decision ==
               IF ~fetched THEN "conversation_fetch_failed"
               ELSE IF conversation.state # "open" THEN "conversation_not_open"
               ELSE IF ~finGate(settings.FIN_GATE_MODE, finCheck) THEN "fin_not_involved"
               ELSE IF ~isOptedIn(preferencesStore, handlers[slot].assigneeEmail)
               THEN "user_opted_out"
               ELSE "send"
       IN  /\ handlers' = [handlers EXCEPT ![slot] =
                 IF decision = "send" THEN [@ EXCEPT !.pc = "sending"]
                 ELSE Done(payload, decision)]
           /\ dedupeStore' =
                 IF decision \in {"send", "conversation_fetch_failed"} THEN dedupeStore
                 ELSE markWebhookProcessed(dedupeStore, payload.id, instant)
    /\ UNCHANGED <<instant, settings, conversations, preferencesStore, nudgeQueue,
                   timers, served, slack>>
    /\ UNCHANGED <<engine, driver, calendar, siblings, startup, pure>>

\* Lines 407-430: sendAssignmentDM has settled.
SendSettled(slot, outcome) ==
    /\ handlers[slot].pc = "sending"
    /\ LET payload == handlers[slot].payload
           info == handlers[slot].info
           assigneeEmail == handlers[slot].assigneeEmail
           result == sendAssignmentDM(outcome, settings.FALLBACK_CHANNEL)
           scheduled == scheduleNudge(nudgeQueue, timers, info.conversationId,
                                      assigneeEmail, settings.SLA_NUDGE_MINUTES, instant)
       IN  IF result.success
           THEN /\ slack' = Append(slack,
                       Message("assignment", IF result.usedFallback THEN "fallback" ELSE "dm",
                               assigneeEmail, payload.id, info.conversationId,
                               info.lastAssignmentAt))
                /\ dedupeStore' =
                       dedupe_markAssignmentNotified(
                           markWebhookProcessed(dedupeStore, payload.id, instant),
                           info.conversationId, assigneeEmail, info.lastAssignmentAt, instant)
                /\ nudgeQueue' = scheduled.queue
                /\ timers' = scheduled.timers
                /\ handlers' = [handlers EXCEPT ![slot] = Done(payload, "sent")]
           ELSE /\ handlers' = [handlers EXCEPT ![slot] =
                       Done(payload, IF result.threw THEN "handler_error" ELSE "failed")]
                /\ dedupeStore' = AfterFailedSend(dedupeStore, payload.id, instant)
                /\ UNCHANGED <<slack, nudgeQueue, timers>>
    /\ UNCHANGED <<instant, settings, conversations, preferencesStore, served>>
    /\ UNCHANGED <<engine, driver, calendar, siblings, startup, pure>>

(***************************************************************************)
(* nudge.js: the callback of setTimeout, one action per stretch of code    *)
(* between two awaits.                                                     *)
(***************************************************************************)
\* Lines 43-50, `finally`: the callback is over.
NudgeOver(timer) ==
    /\ timers' = timers \ {timer}
    /\ nudgeQueue' = [nudgeQueue EXCEPT ![timer.conversationId] = NoNudge]

\* Lines 43-45 and 82-88: the timer fires and getConversation is awaited.
NudgeFire(timer) ==
    /\ timer \in timers
    /\ timer.stage = "pending"
    /\ instant >= timer.dueAt
    /\ timers' = (timers \ {timer}) \cup {[timer EXCEPT !.stage = "fetching"]}
    /\ UNCHANGED <<instant, settings, conversations, dedupeStore, preferencesStore,
                   nudgeQueue, served, handlers, slack>>
    /\ UNCHANGED <<engine, driver, calendar, siblings, startup, pure>>

\* Lines 89-128: getConversation has settled; the checks up to the call of
\* sendAssignmentDM.
NudgeFetched(timer, fetched) ==
    /\ timer \in timers
    /\ timer.stage = "fetching"
    /\ LET conversation == conversations[timer.conversationId]
           lastAssignmentAt == IF conversation.last_assignment_at # 0
                               THEN conversation.last_assignment_at ELSE instant
           notified == dedupe_isAssignmentNotified(dedupeStore, timer.conversationId,
                                                   timer.assigneeEmail, lastAssignmentAt,
                                                   instant)
       IN  IF ~fetched \/ conversation.state # "open" \/ hasAdminReply(conversation)
           THEN NudgeOver(timer) /\ UNCHANGED dedupeStore
           ELSE /\ dedupeStore' = notified.store
                /\ IF notified.result
                   THEN NudgeOver(timer)
                   ELSE /\ timers' = (timers \ {timer}) \cup
                               {[timer EXCEPT !.stage = "sending",
                                              !.lastAssignmentAt = lastAssignmentAt]}
                        /\ UNCHANGED nudgeQueue
    /\ UNCHANGED <<instant, settings, conversations, preferencesStore, served,
                   handlers, slack>>
    /\ UNCHANGED <<engine, driver, calendar, siblings, startup, pure>>

\* Lines 129-146: sendAssignmentDM has settled.
NudgeSettled(timer, outcome) ==
    /\ timer \in timers
    /\ timer.stage = "sending"
    /\ LET result == sendAssignmentDM(outcome, settings.FALLBACK_CHANNEL)
       IN  IF result.success
           THEN /\ slack' = Append(slack,
                       Message("nudge", IF result.usedFallback THEN "fallback" ELSE "dm",
                               timer.assigneeEmail, "", timer.conversationId,
                               timer.lastAssignmentAt))
                /\ dedupeStore' =
                       dedupe_markAssignmentNotified(dedupeStore, timer.conversationId,
                                                     timer.assigneeEmail,
                                                     timer.lastAssignmentAt, instant)
           ELSE UNCHANGED <<slack, dedupeStore>>
    /\ NudgeOver(timer)
    /\ UNCHANGED <<instant, settings, conversations, preferencesStore, served, handlers>>
    /\ UNCHANGED <<engine, driver, calendar, siblings, startup, pure>>

(***************************************************************************)
(* Around the service: time, the agents and Intercom                       *)
(***************************************************************************)
\* Five minutes pass.  The requests of the service settle within seconds, so
\* the clock of the model advances while none is under way.
Elapse ==
    /\ instant < Epoch + MaxElapses * FiveMinutes
    /\ \A slot \in Slots : handlers[slot].pc = "idle"
    /\ \A timer \in timers : timer.stage = "pending"
    /\ instant' = instant + FiveMinutes
    /\ UNCHANGED <<settings, conversations, dedupeStore, preferencesStore, nudgeQueue,
                   timers, served, handlers, slack>>
    /\ UNCHANGED <<engine, driver, calendar, siblings, startup, pure>>

\* dedupe.js lines 89-99: the cleanup of setInterval.
Cleanup ==
    /\ dedupeStore' = cleanup(dedupeStore, instant)
    /\ dedupeStore' # dedupeStore
    /\ UNCHANGED <<instant, settings, conversations, preferencesStore, nudgeQueue,
                   timers, served, handlers, slack>>
    /\ UNCHANGED <<engine, driver, calendar, siblings, startup, pure>>

\* commands.js, /cx-alerts opt-in and opt-out: the address is the one Slack
\* holds for the user; optIn and optOut set the preference before the reply
\* is sent.
SlashCommand(email, optedIn) ==
    /\ served < MaxServiceEvents
    /\ served' = served + 1
    /\ preferencesStore' = setPreference(preferencesStore, email, optedIn)
    /\ preferencesStore' # preferencesStore
    /\ UNCHANGED <<instant, settings, conversations, dedupeStore, nudgeQueue, timers,
                   handlers, slack>>
    /\ UNCHANGED <<engine, driver, calendar, siblings, startup, pure>>

\* The conversation is closed in Intercom.
CloseConversation(c) ==
    /\ served < MaxServiceEvents
    /\ served' = served + 1
    /\ conversations[c].state = "open"
    /\ conversations' = [conversations EXCEPT ![c].state = "closed"]
    /\ UNCHANGED <<instant, settings, dedupeStore, preferencesStore, nudgeQueue, timers,
                   handlers, slack>>
    /\ UNCHANGED <<engine, driver, calendar, siblings, startup, pure>>

\* An admin replies in the conversation.
AdminReplies(c) ==
    /\ served < MaxServiceEvents
    /\ served' = served + 1
    /\ conversations[c].admin_reply_at = 0
    /\ conversations' = [conversations EXCEPT ![c].admin_reply_at = instant]
    /\ UNCHANGED <<instant, settings, dedupeStore, preferencesStore, nudgeQueue, timers,
                   handlers, slack>>
    /\ UNCHANGED <<engine, driver, calendar, siblings, startup, pure>>
(***************************************************************************)
(* Specifications                                                          *)
(***************************************************************************)
\* Everything but the engine and its passes.
Beside == <<driver, calendar, siblings, startup, pure, service>>

UpstreamChange ==
    \/ \E t \in Tickets : Assign(t) /\ UNCHANGED Beside
    \/ \E t \in Tickets, s \in {"none", "active", "missed"} :
          SetSlaStatus(t, s) /\ UNCHANGED Beside
    \/ \E t \in Tickets : Snooze(t) /\ UNCHANGED Beside
    \/ \E t \in Tickets, c \in {"open", "waiting_on_customer"} :
          SetCategory(t, c) /\ UNCHANGED Beside

Call ==
    \/ \E p \in Passes, ticketOk, convOk \in BOOLEAN :
          CheckNoSLA(p, ticketOk, convOk) /\ UNCHANGED Beside
    \/ \E p \in Passes, ticketOk, convOk \in BOOLEAN :
          CheckSLA(p, ticketOk, convOk) /\ UNCHANGED Beside
    \/ \E p \in Passes, outcome \in {"ok", "false", "throw"} :
          SendDone(p, outcome) /\ UNCHANGED Beside
    \/ \E p \in Passes, written \in BOOLEAN :
          SaveDone(p, written) /\ UNCHANGED Beside

\* The program as the code schedules it: passes may overlap, the process may
\* be restarted.
Next ==
    \/ Tick /\ UNCHANGED Beside
    \/ UpstreamChange
    \/ \E p \in Passes, order \in SearchOrders, withStats \in BOOLEAN :
          PollStart(p, order, withStats) /\ UNCHANGED Beside
    \/ Call
    \/ Restart /\ UNCHANGED Beside

Spec == Init /\ [][Next]_vars

\* The runs in which every pass ends before the next timer fires and the
\* process is never restarted.
NextSequential ==
    \/ Tick /\ UNCHANGED Beside
    \/ UpstreamChange
    \/ \E order \in SearchOrders, withStats \in BOOLEAN :
          PollAfterPass(order, withStats) /\ UNCHANGED Beside
    \/ Call

SpecSequential == InitSequential /\ [][NextSequential]_vars

\* poll() as a whole, one pass at a time, with state.json, the calendar and
\* the assignment notifications.
NextDriver ==
    \/ Tick /\ UNCHANGED Beside
    \/ UpstreamChange
    \/ PollSkipped
    \/ \E withStats \in BOOLEAN, io \in StartIO : PollBegin(withStats, io)
    \/ ProcessTicket
    \/ \E ticketOk, convOk \in BOOLEAN : CheckTicket(ticketOk, convOk)
    \/ CheckUntracked
    \/ ResumeTicket
    \/ \E io \in EndIO : PollEnd(io)

SpecDriver == InitDriver /\ [][NextDriver]_vars

\* The poller, one pass at a time, with update-assignees.js and the
\* dashboard beside it.
NextSiblings ==
    \/ Tick /\ UNCHANGED Beside
    \/ UpstreamChange
    \/ \E order \in SearchOrders, withStats \in BOOLEAN :
          PollAfterPass(order, withStats) /\ UNCHANGED Beside
    \/ Call
    \/ UpdaterRead
    \/ UpdaterWrite
    \/ DashboardReload

SpecSiblings == InitSiblings /\ [][NextSiblings]_vars

\* business-hours.js asked at an instant of the week.
NextCalendar ==
    \/ IsBusinessHoursCall
    \/ GetNextBusinessHoursStartCall

SpecCalendar == InitCalendar /\ [][NextCalendar]_vars

\* The import of sla-monitor-enhanced.js.
NextStartup ==
    \/ LoadSLAState
    \/ LoadAssignmentTracking

SpecStartup == InitStartup /\ [][NextStartup]_vars


\* The program at rest, as the functions called on their own find it.
AtRest ==
    /\ StartedAt(0, {Epoch + FiveMinutes})
    /\ slaChannel
    /\ slaStateFile = [t \in Tickets |-> NoRecord]
    /\ \A t \in Tickets : upstream[t].admin_assignee_id = 0 /\ upstream[t].slaOn = "ticket"
    /\ DriverIdle({DefaultState})
    /\ CalendarIdle({DefaultConfig(BusinessHoursEnabled, Zone(540), 0)})
    /\ NoSiblings

InitDurations == AtRest /\ StartupDone /\ NoCalls /\ ServiceIdle

\* getSLADuration asked about an SLA name under a setting of SLA_DURATIONS.
NextDurations == GetSLADurationCall

SpecDurations == InitDurations /\ [][NextDurations]_vars

\* getSLAStats asked about a list of rows.
NextStats == GetSLAStatsCall

SpecStats == InitDurations /\ [][NextStats]_vars

\* extractAssignmentInfo handed a payload.
InitExtraction ==
    /\ AtRest
    /\ StartupDone
    /\ probe \in {[fn |-> "payload", payload |-> p] : p \in ExtractionPayloads}
    /\ ServiceIdle

NextExtraction == ExtractAssignmentInfoCall

SpecExtraction == InitExtraction /\ [][NextExtraction]_vars

\* The settings of the service and the conversation, assigned at Epoch to
\* an admin or to a team only, that the webhooks are about.
ServiceSettings ==
    {Settings("required", FALSE, 0), Settings("required", TRUE, 5),
     Settings("log_only", FALSE, 0)}

AssignedConversations ==
    {Conversation("open", indicators, who[1], who[2]) :
        indicators \in {{}, {"ai_agent"}},
        who \in {<<"a1", "team_9">>, <<"", "team_9">>}}

InitService ==
    /\ AtRest
    /\ StartupDone
    /\ NoCalls
    /\ ServiceAt(ServiceSettings, AssignedConversations)

NextService ==
    \/ \E slot \in Slots, c \in Conversations :
          \E payload \in Webhooks(conversations[c]) : Deliver(slot, payload)
    \/ \E slot \in Slots, fetched \in BOOLEAN : FallbackFetched(slot, fetched)
    \/ \E slot \in {s \in Slots : handlers[s].pc = "admin"} :
          \E answer \in AdminAnswers(handlers[slot].info.assigneeId) \cup {"throw"} :
             AdminFetched(slot, answer)
    \/ \E slot \in Slots, fetched \in BOOLEAN : ConversationFetched(slot, fetched)
    \/ \E slot \in Slots, outcome \in SendOutcomes : SendSettled(slot, outcome)
    \/ \E timer \in timers : NudgeFire(timer)
    \/ \E timer \in timers, fetched \in BOOLEAN : NudgeFetched(timer, fetched)
    \/ \E timer \in timers, outcome \in SendOutcomes : NudgeSettled(timer, outcome)
    \/ Elapse
    \/ Cleanup
    \/ \E email \in Emails, optedIn \in BOOLEAN : SlashCommand(email, optedIn)
    \/ \E c \in Conversations : CloseConversation(c)
    \/ \E c \in Conversations : AdminReplies(c)

SpecService == InitService /\ [][NextService]_vars

(***************************************************************************)
(* server.js and intercom.js: the webhook endpoint.  A header is a         *)
(* sequence of pieces: the text "sha1" or "sha256", the character "=" and   *)
(* the characters of a digest, of which "a" and "b" are hexadecimal digits, *)
(* "A" is the upper-case spelling of "a" and "z" is no hexadecimal digit.   *)
(* A digest has HexLen characters (40 in the code).                         *)
(***************************************************************************)
\* crypto.createHmac('sha1', secret).update(body).digest('hex'): lower-case
\* hexadecimal digits, one digest per body.
createHmac(secret, rawBody) ==
    [i \in 1..HexLen |-> IF (i + (IF rawBody = "w1" THEN 0 ELSE 1)) % 2 = 0
                         THEN "a" ELSE "b"]

\* Buffer.from(text, 'hex'): two digits make a byte, in either case; decoding
\* stops at the first pair that is not two hexadecimal digits, and a last
\* single character is dropped.
hexDecode(text) ==
    LET digit(c) == c \in {"a", "b", "A"}
        lower(c) == IF c = "A" THEN "a" ELSE c
        pairs == Len(text) \div 2
        whole(k) == \A j \in 1..k : digit(text[2 * j - 1]) /\ digit(text[2 * j])
        n == CHOOSE k \in 0..pairs :
                 /\ whole(k)
                 /\ \A more \in 0..pairs : whole(more) => more <= k
    IN  [j \in 1..n |-> <<lower(text[2 * j - 1]), lower(text[2 * j])>>]

\* intercom.js lines 13-60; "throw" when crypto.timingSafeEqual is handed
\* buffers of different byte lengths.
verifyIntercomSignature(rawBody, signature, secret) ==
    LET separators == {i \in DOMAIN signature : signature[i] = "="}
        at == CHOOSE i \in separators : TRUE
        receivedHash == SubSeq(signature, at + 1, Len(signature))
        computedHash == createHmac(secret, rawBody)
    IN  IF secret = "" THEN "false"
        ELSE IF Cardinality(separators) # 1 THEN "false"
        ELSE IF SubSeq(signature, 1, at - 1) # <<"sha1">> THEN "false"
        ELSE IF Len(receivedHash) # Len(computedHash) THEN "false"
        ELSE IF Len(hexDecode(receivedHash)) # Len(hexDecode(computedHash)) THEN "throw"
        ELSE IF hexDecode(receivedHash) = hexDecode(computedHash) THEN "true"
        ELSE "false"

\* The requests sent to POST /intercom/webhook: a body, which is the text of
\* payload w1 or w2 or no JSON at all, the X-Hub-Signature header (empty when
\* there is none) and the INTERCOM_CLIENT_SECRET of the process.
Requests ==
    LET chars == {"a", "b", "A", "z"}
        hashes == UNION {[1..n -> chars] : n \in 0..(HexLen + 1)}
        headers == {<<>>}
                   \cup {<<scheme, "=">> \o h : scheme \in {"sha1", "sha256"}, h \in hashes}
                   \cup {<<"sha1">> \o h : h \in hashes}
                   \cup {<<"sha1", "=">> \o h \o <<"=">> : h \in hashes}
    IN  [body : {"w1", "w2", "no json"}, signature : headers, secret : {"", "k"}]

\* server.js lines 34-118: the 'end' callback of a request.  handed is the
\* payload passed to handleWebhook, "" when none was.
WebhookEndpoint ==
    /\ probe.fn = "request"
    /\ LET request == probe.request
           isValid == verifyIntercomSignature(request.body, request.signature,
                                              request.secret)
           answer(status, reply, handed) ==
               [fn |-> "response", request |-> request, status |-> status,
                reply |-> reply, handed |-> handed]
       IN  probe' =
              IF request.signature = <<>> THEN answer(401, "Missing signature", "")
              ELSE IF isValid = "throw" THEN answer(200, "error", "")
              ELSE IF isValid = "false" THEN answer(401, "Invalid signature", "")
              ELSE IF request.body = "no json" THEN answer(200, "ignored", "")
              ELSE answer(200, "received", request.body)
    /\ UNCHANGED <<engine, driver, calendar, siblings, startup, service>>

InitEndpoint ==
    /\ AtRest
    /\ StartupDone
    /\ probe \in {[fn |-> "request", request |-> r] : r \in Requests}
    /\ ServiceIdle

NextEndpoint == WebhookEndpoint

SpecEndpoint == InitEndpoint /\ [][NextEndpoint]_vars

(***************************************************************************)
(* The poller left running: poll.js lines 392-398.                         *)
(***************************************************************************)
\* setInterval fires CHECK_INTERVAL after the previous firing, for as long as
\* the process lives.  Past the last instant told apart the passes follow
\* each other at that instant.
Interval ==
    /\ budget = 0
    /\ stage = "none"
    /\ pc[Driver] = "idle"
    /\ budget' = 1
    /\ now' = IF now < Epoch + FiveMinutes + MaxIntervals * CheckInterval
              THEN now + CheckInterval ELSE now
    /\ UNCHANGED <<upstream, slaChannel, slaStateCache, heap, slaStateFile, pc,
                   queue, frame, writing, delivered, duplicated, failed, ticks>>
    /\ UNCHANGED Beside

\* A tracked ticket with an SLA, assigned at Epoch, active and not paused,
\* five minutes later, with SLA_ALERT_CHANNEL configured and inside business
\* hours.
InitWatch ==
    /\ InitDriver
    /\ slaChannel
    /\ \A t \in Tickets : slaStateCache[t].exists
    /\ \A t \in Tickets : upstream[t].first_assignment_at = Epoch
    /\ isBusinessHours(now, businessHours)

\* The passes of the poller while the ticket is left alone or is touched
\* upstream (a comment: updated_at changes, nothing else does), with the file
\* system and Intercom answering every call, every assignee opted in and
\* known by email, and Slack answering every call except that direct
\* messages may fail or throw until the first interval has passed.
NextWatch ==
    \/ Interval
    \/ \E t \in Tickets : Upstream(t, upstream[t]) /\ UNCHANGED Beside
    \/ \E withStats \in BOOLEAN :
          PollBegin(withStats, [read |-> TRUE, write |-> TRUE, search |-> TRUE])
    \/ ProcessTicketWith({io \in TicketIO :
                             /\ io.fetch /\ io.read /\ io.optedIn
                             /\ io.admin = "ok" /\ io.mark = "ok"
                             /\ (io.dm = "ok" \/ now < Epoch + FiveMinutes + CheckInterval)})
    \/ CheckTicket(TRUE, TRUE)
    \/ CheckUntracked
    \/ /\ stage = "sla"
       /\ frame[Driver].active
       /\ SendDone(Driver, "ok") \/ SaveDone(Driver, TRUE)
       /\ Around(frame[Driver].ticket.id)
    \/ PollEnd([read |-> TRUE, write |-> TRUE])

SpecWatch == InitWatch /\ [][NextWatch]_vars /\ WF_vars(NextWatch)
(***************************************************************************)
(* The poller stopped and started again: poll.js lines 366-416.            *)
(***************************************************************************)
\* The process exits (SIGINT, SIGTERM or a crash, at any point of a pass) and
\* startPolling runs again an hour later: the module state is gone
\* (processedAssignments, the pass at hand), the SLA cache is loaded from
\* its file, state.json is as the last write left it, and the first poll
\* follows at once.
Downtime ==
    /\ now < Epoch + FiveMinutes + OneHour
    /\ now' = now + OneHour
    /\ budget' = 1
    /\ slaStateCache' = LoadedCache(slaStateFile)
    /\ heap' = LoadedHeap(slaStateFile)
    /\ pc' = [p \in Passes |-> "idle"]
    /\ queue' = [p \in Passes |-> <<>>]
    /\ frame' = [p \in Passes |-> NoFrame]
    /\ writing' = [p \in Passes |-> NoWrite]
    /\ processedAssignments' = {}
    /\ stage' = "none"
    /\ local' = [currentTimestamp |-> 0, lastCheckTime |-> 0]
    /\ pass' = NoPass
    /\ UNCHANGED <<upstream, slaChannel, slaStateFile, delivered, duplicated,
                   failed, ticks, stateFile, messages>>
    /\ UNCHANGED <<calendar, siblings, startup, pure, service>>

NextRepeat == NextWatch \/ Downtime

SpecRepeat == InitWatch /\ [][NextRepeat]_vars
(***************************************************************************)
(* The poller while sla-monitor-enhanced.js is being imported: nothing     *)
(* orders the loads started at lines 137-144 and the first passes of       *)
(* poll(), which meet the cache at lines 403-404 and 499-501.              *)
(***************************************************************************)
\* sla-state.json can be read and parsed.
InitImport == Importing(MaxImportEvents) /\ disk.sla = "ok"

\* The loads and the passes, one pass at a time, while time passes and the
\* tickets change upstream, with Intercom, Slack and the file system
\* answering every call.
NextImport ==
    \/ Tick /\ UNCHANGED Beside
    \/ UpstreamChange
    \/ LoadSLAState
    \/ LoadAssignmentTracking
    \/ \E order \in SearchOrders, withStats \in BOOLEAN :
          PollAfterPass(order, withStats) /\ UNCHANGED Beside
    \/ \E p \in Passes : CheckNoSLA(p, TRUE, TRUE) /\ UNCHANGED Beside
    \/ \E p \in Passes : CheckSLA(p, TRUE, TRUE) /\ UNCHANGED Beside
    \/ \E p \in Passes : SendDone(p, "ok") /\ UNCHANGED Beside
    \/ \E p \in Passes : SaveDone(p, TRUE) /\ UNCHANGED Beside

SpecImport == InitImport /\ [][NextImport]_vars
(***************************************************************************)
(* The status-only SLA monitor (backfill-sla.js lines 173-430) for one     *)
(* ticket.  `probe` holds the SLA status Intercom reports, SLA_CHANNEL,    *)
(* slaStateCache and sla-state.json for the ticket, and the log of the     *)
(* calls: the status each call observed and whether its message reached    *)
(* the channel.                                                            *)
(***************************************************************************)
NoEntry == [exists |-> FALSE]

\* notifiedAt is 0 when the record has no such field.
Entry(status, notifiedAt, updatedAt) ==
    [exists |-> TRUE, sla_status |-> status, notifiedAt |-> notifiedAt,
     updatedAt |-> updatedAt]

\* Lines 312-403.  `outcome` is what sendBlockKitMessage does ("ok",
\* "false", "throw"), `written` whether writeFile succeeds, `at` Date.now().
statusOnly_checkSLAStatus(cache, file, channel, status, outcome, written, at) ==
    LET Returns(c, saved, sent) ==
            [cache |-> c, file |-> IF saved /\ written THEN c ELSE file, sent |-> sent]
        previousState == cache
        updated == Entry(status, 0, at)
    IN  IF ~channel THEN Returns(cache, FALSE, FALSE)
        ELSE IF status = "none" THEN Returns(NoEntry, cache.exists, FALSE)
        ELSE IF status # "missed" THEN Returns(updated, TRUE, FALSE)
        \* lines 357-361 have replaced the record before notifiedAt is read
        ELSE IF previousState.exists /\ previousState.notifiedAt # 0
             THEN Returns(updated, FALSE, FALSE)
        ELSE IF outcome = "ok" THEN Returns(Entry(status, at, at), TRUE, TRUE)
        ELSE Returns(updated, FALSE, FALSE)

\* A pass of the poller reaches the ticket.
MonitorCheck ==
    /\ probe.fn = "monitor"
    /\ Len(probe.log) < MaxChecks
    /\ \E outcome \in {"ok", "false", "throw"}, written \in BOOLEAN :
          LET done == statusOnly_checkSLAStatus(probe.cache, probe.file, probe.channel,
                                                probe.status, outcome, written,
                                                Len(probe.log) + 1)
          IN  probe' = [probe EXCEPT
                           !.cache = done.cache,
                           !.file = done.file,
                           !.log = Append(@, [status |-> probe.status,
                                              sent |-> done.sent])]
    /\ UNCHANGED <<engine, driver, calendar, siblings, startup, service>>

\* Intercom reports another SLA status for the ticket.
MonitorStatus ==
    /\ probe.fn = "monitor"
    /\ \E status \in {"none", "active", "missed", "hit"} \ {probe.status} :
          probe' = [probe EXCEPT !.status = status]
    /\ UNCHANGED <<engine, driver, calendar, siblings, startup, service>>

InitMonitor ==
    /\ AtRest
    /\ StartupDone
    /\ ServiceIdle
    /\ probe \in [fn : {"monitor"}, status : {"none", "active", "missed", "hit"},
                  channel : BOOLEAN, cache : {NoEntry}, file : {NoEntry},
                  log : {<<>>}]

NextMonitor ==
    \/ MonitorCheck
    \/ MonitorStatus

SpecMonitor == InitMonitor /\ [][NextMonitor]_vars
(***************************************************************************)
(* A webhook delivered again: webhook-handler.js lines 196-431 when        *)
(* Intercom repeats the notification w1 about c1 after the previous        *)
(* attempt has ended.                                                      *)
(***************************************************************************)
\* c1 is open, assigned to the admin a1 and shows Fin; no nudge is
\* configured.
InitRedelivery ==
    /\ AtRest
    /\ StartupDone
    /\ NoCalls
    /\ ServiceAt({s \in ServiceSettings : s.SLA_NUDGE_MINUTES = 0},
                 {Conversation("open", {"ai_agent"}, "a1", "team_9")})

\* Intercom answers every fetch; Slack may fail.
NextRedelivery ==
    \/ /\ \A slot \in Slots : handlers[slot].pc = "idle"
       /\ \E payload \in {w \in Webhooks(conversations["c1"]) :
                             w.id = "w1" /\ w.topic = Assigned} :
             Deliver("h1", payload)
    \/ \E slot \in {s \in Slots : handlers[s].pc = "admin"} :
          AdminFetched(slot, "ann@x.io")
    \/ \E slot \in Slots : ConversationFetched(slot, TRUE)
    \/ \E slot \in Slots, outcome \in SendOutcomes : SendSettled(slot, outcome)
    \/ Elapse
    \/ Cleanup

SpecRedelivery == InitRedelivery /\ [][NextRedelivery]_vars
(***************************************************************************)
(* Properties                                                              *)
(***************************************************************************)
\* The calls of checkSLAStatus suspended at an await.
Calls == {p \in Passes : frame[p].active}

\* Every alert history there is: in the cache, reachable from a suspended
\* call, in the file, in a write under way.
Histories(t) ==
    {RecordedHistory(slaStateCache, heap, t)}
    \cup {heap[frame[p].stateUpdate.alert_history] :
             p \in {q \in Calls : frame[q].awaiting = "send" /\ frame[q].ticket.id = t}}
    \cup (IF slaStateFile[t].exists THEN {slaStateFile[t].alert_history} ELSE {})
    \cup {writing[p].data[t].alert_history :
             p \in {q \in Passes : writing[q].pending /\ writing[q].data[t].exists}}

EntryKey(t, entry) == AlertKey(t, entry.type, entry.deadline)

\* The snapshot has no assignment statistic and no assignee to date it by.
NoAssignmentTimestamp(ticket) ==
    /\ ticket.first_assignment_at = 0
    /\ ticket.last_assignment_at = 0
    /\ (ticket.admin_assignee_id = 0 \/ ticket.updated_at = 0)

\* Paused as the specification defines it, on the fields of the snapshot.
SnapshotPaused(ticket, at) ==
    \/ (ticket.snoozed_until # 0 /\ ticket.snoozed_until > at)
    \/ ticket.category = "waiting_on_customer"

Count(history, type) ==
    Cardinality({i \in DOMAIN history : history[i].type = type})

\* C1: across the polling passes over a ticket, at most one alert message is
\* delivered per violation occurrence (one for the missed status, one per
\* deadline value).  Refuted even when passes never overlap and the process
\* never restarts.
C1_AtMostOneAlertPerViolation == duplicated = {}

\* C2: no alert_history of the store ever holds two deadline_violation
\* entries with the same deadline.
C2_NoTwoEntriesForOneDeadline ==
    \A t \in Tickets :
        LET history == RecordedHistory(slaStateCache, heap, t)
        IN  \A i, j \in DOMAIN history :
                (/\ i # j
                 /\ history[i].type = "deadline_violation"
                 /\ history[j].type = "deadline_violation")
                => history[i].deadline # history[j].deadline

\* C3: once the record of a ticket holds a status_missed entry, no step adds
\* another status_missed entry to it, and a call that finds the entry emits
\* no status_missed violation.
C3_MissedRecordedOnce ==
    [][\A t \in Tickets :
          LET before == RecordedHistory(slaStateCache, heap, t)
              after == RecordedHistory(slaStateCache', heap', t)
          IN  missedNotified(before) =>
                /\ Count(after, "status_missed") <= Count(before, "status_missed")
                /\ \A p \in Passes :
                      (pc[p] = "loop" /\ pc'[p] # "loop" /\ frame'[p].active
                         /\ frame'[p].ticket.id = t)
                      => frame'[p].violationType # "status_missed"]_vars

\* C4: when a checkSLAStatus call returns, the store holds a record for the
\* ticket exactly if the snapshot the call processed carried an SLA status.
C4_RecordIffSnapshotHasSLA ==
    [][\A p \in Passes :
          (pc[p] = "save" /\ pc'[p] # "save" /\ budget' = budget)
          => (slaStateCache'[frame[p].ticket.id].exists
                <=> frame[p].ticket.sla_status # "none")]_vars

\* C5: an entry is appended to an alert history only by a call whose alert
\* message was delivered (never without an alert channel, never when the
\* send resolved to false or threw), so every entry held anywhere is for an
\* alert that was delivered.
C5_EntryOnlyAfterDelivery ==
    /\ [](\A t \in Tickets : \A history \in Histories(t) :
            \A i \in DOMAIN history :
                slaChannel /\ EntryKey(t, history[i]) \in delivered)
    /\ [][\A a \in ArrayIds :
             (budget' = budget /\ Len(heap'[a]) > Len(heap[a]))
             => \E p \in Passes :
                   /\ pc[p] = "send" /\ pc'[p] = "save"
                   /\ frame[p].stateUpdate.alert_history = a
                   /\ frame'[p].success
                   /\ slaChannel]_vars

C5_EntryRecorded ==
    \E t \in Tickets : \E history \in Histories(t) : history # <<>>

\* C6: a violation whose dispatch failed and has not succeeded since is
\* recorded in no alert history, and every call that observes it (missed
\* status; or active, unpaused and past the deadline) emits it again and,
\* as the channel is configured, dispatches it again.
C6_FailedDispatchIsRetried ==
    /\ \A t \in Tickets : \A history \in Histories(t) :
          \A i \in DOMAIN history :
              EntryKey(t, history[i]) \in failed => EntryKey(t, history[i]) \in delivered
    /\ \A p \in Calls :
          LET f == frame[p]
              t == f.ticket.id
              missedKey == AlertKey(t, "status_missed", 0)
              overrunKey == AlertKey(t, "deadline_violation", f.deadline)
          IN  /\ (/\ f.ticket.sla_status = "missed"
                  /\ missedKey \in failed \ delivered)
                 => f.violationType = "status_missed" /\ f.shouldAlert
              /\ (/\ f.ticket.sla_status = "active"
                  /\ ~SnapshotPaused(f.ticket, f.at)
                  /\ f.deadline # 0
                  /\ f.at > f.deadline
                  /\ overrunKey \in failed \ delivered)
                 => f.violationType = "deadline_violation" /\ f.shouldAlert

C6_EmittedAgainAfterFailure ==
    \E p \in Calls :
        /\ frame[p].awaiting = "send"
        /\ frame[p].again
        /\ AlertKey(frame[p].ticket.id, frame[p].violationType, frame[p].deadline)
              \notin delivered

\* The snapshot of the scenario: assigned five minutes and one second before
\* the call, SLA of 300 s, active, not paused.
Scenario(ticket, at) ==
    /\ ticket.first_assignment_at # 0
    /\ at = ticket.first_assignment_at + FiveMinutes + 1
    /\ ticket.sla_status = "active"
    /\ ~SnapshotPaused(ticket, at)

\* C7 as stated: the call on the scenario's snapshot, no matching entry being
\* recorded, reports a deadline_violation with deadline T+300, and when it
\* returns an identical call would report no violation.
C7_SecondCallReportsNothing ==
    [][\A p \in Passes :
          /\ (/\ pc[p] = "loop" /\ pc'[p] # "loop" /\ frame'[p].active
              /\ Scenario(frame'[p].ticket, frame'[p].at)
              /\ ~deadlineNotified(
                     RecordedHistory(slaStateCache, heap, frame'[p].ticket.id),
                     frame'[p].ticket.first_assignment_at + FiveMinutes))
             => /\ frame'[p].violationType = "deadline_violation"
                /\ frame'[p].deadline = frame'[p].ticket.first_assignment_at + FiveMinutes
          /\ (/\ pc[p] = "save" /\ pc'[p] # "save" /\ budget' = budget
              /\ Scenario(frame[p].ticket, frame[p].at)
              /\ frame[p].violationType = "deadline_violation")
             => Evaluate(frame[p].ticket,
                         RecordedHistory(slaStateCache', heap', frame[p].ticket.id),
                         frame[p].at).violationType = "none"]_vars

\* C7, amended: the call on the scenario's snapshot, no matching entry being
\* recorded, reports a deadline_violation with deadline T+300; when its
\* alert is delivered, an identical call on the record it then stores reports
\* no violation.
C7_SecondCallAfterDelivery ==
    [][\A p \in Passes :
          /\ (/\ pc[p] = "loop" /\ pc'[p] # "loop" /\ frame'[p].active
              /\ Scenario(frame'[p].ticket, frame'[p].at)
              /\ ~deadlineNotified(
                     RecordedHistory(slaStateCache, heap, frame'[p].ticket.id),
                     frame'[p].ticket.first_assignment_at + FiveMinutes))
             => /\ frame'[p].violationType = "deadline_violation"
                /\ frame'[p].deadline = frame'[p].ticket.first_assignment_at + FiveMinutes
          /\ (/\ pc[p] = "send" /\ pc'[p] = "save"
              /\ frame'[p].success
              /\ Scenario(frame[p].ticket, frame[p].at)
              /\ frame[p].violationType = "deadline_violation")
             => Evaluate(frame[p].ticket,
                         RecordedHistory(slaStateCache', heap', frame[p].ticket.id),
                         frame[p].at).violationType = "none"]_vars

C7_ScenarioDelivered ==
    \E p \in Calls :
        /\ frame[p].awaiting = "save"
        /\ frame[p].success
        /\ Scenario(frame[p].ticket, frame[p].at)
        /\ frame[p].violationType = "deadline_violation"
        /\ frame[p].deadline = frame[p].ticket.first_assignment_at + FiveMinutes
        /\ frame[p].result.alerted

\* C8: a call emits deadline_violation only when the snapshot's status is
\* active, the ticket is neither snoozed until a future instant nor waiting
\* on the customer, the deadline is not null and the instant of the call is
\* strictly after the deadline.
C8_DeadlineViolationOnlyWhenDue ==
    \A p \in Calls :
        frame[p].violationType = "deadline_violation"
        => /\ frame[p].ticket.sla_status = "active"
           /\ ~(frame[p].ticket.snoozed_until # 0
                  /\ frame[p].ticket.snoozed_until > frame[p].at)
           /\ frame[p].ticket.category # "waiting_on_customer"
           /\ frame[p].deadline # 0
           /\ frame[p].at > frame[p].deadline

C8_DeadlineViolationEmitted ==
    \E p \in Calls :
        /\ frame[p].violationType = "deadline_violation"
        /\ frame[p].at = frame[p].deadline + 1

\* C9 as stated: a call on a snapshot without a resolvable assignment
\* timestamp emits no violation and dispatches no alert.
C9_NoTimestampNoViolation ==
    \A p \in Calls :
        NoAssignmentTimestamp(frame[p].ticket)
        => /\ frame[p].violationType = "none"
           /\ frame[p].awaiting # "send"

\* C9, amended: a call on a snapshot without a resolvable assignment
\* timestamp computes no deadline and emits no deadline_violation; the only
\* violation it can emit is status_missed, for a status of missed.
C9_NoTimestampNoDeadlineViolation ==
    \A p \in Calls :
        NoAssignmentTimestamp(frame[p].ticket)
        => /\ frame[p].deadline = 0
           /\ frame[p].violationType # "deadline_violation"
           /\ (frame[p].violationType = "status_missed"
                 => frame[p].ticket.sla_status = "missed")

C9_MissedWithoutTimestamp ==
    \E p \in Calls :
        /\ NoAssignmentTimestamp(frame[p].ticket)
        /\ frame[p].violationType = "status_missed"
        /\ frame[p].awaiting = "send"

\* C10: reassigning a ticket whose record holds a deadline_violation entry
\* changes the assignment instant the engine resolves for it; and a call
\* that finds such a ticket active, unpaused and more than the SLA duration
\* past the reassignment works with the deadline the reassignment sets and
\* emits a deadline_violation for it, unless one is recorded for it.
C10_ReassignmentResetsDeadline ==
    [][/\ \A t \in Tickets :
             LET history == RecordedHistory(slaStateCache, heap, t)
             IN  (/\ upstream[t].first_assignment_at # 0
                  /\ upstream'[t].last_assignment_at # upstream[t].last_assignment_at
                  /\ \E i \in DOMAIN history : history[i].type = "deadline_violation")
                 => getAssignmentTimestamp(upstream'[t])
                       # getAssignmentTimestamp(upstream[t])
       /\ \A p \in Passes :
             (pc[p] = "loop" /\ pc'[p] # "loop" /\ frame'[p].active)
             => LET f == frame'[p]
                    history == RecordedHistory(slaStateCache, heap, f.ticket.id)
                    renewed == f.ticket.last_assignment_at + FiveMinutes
                IN  (/\ f.ticket.first_assignment_at # 0
                     /\ f.ticket.last_assignment_at > f.ticket.first_assignment_at
                     /\ f.ticket.sla_status = "active"
                     /\ ~SnapshotPaused(f.ticket, f.at)
                     /\ f.at > renewed
                     /\ \E i \in DOMAIN history :
                           /\ history[i].type = "deadline_violation"
                           /\ history[i].timestamp < f.ticket.last_assignment_at)
                    => /\ f.deadline = renewed
                       /\ (f.violationType = "deadline_violation"
                             \/ deadlineNotified(history, renewed))]_vars


\* C11: at most one polling pass is in progress at any time, so no two calls
\* of checkSLAStatus (and no two writes of the store) ever interleave.
C11_OnePassAtATime ==
    /\ Cardinality({p \in Passes : pc[p] # "idle"}) <= 1
    /\ Cardinality(Calls) <= 1
    /\ Cardinality({p \in Passes : writing[p].pending}) <= 1

\* C12: when a polling pass has failed, what is persisted (sla-state.json with
\* its records and alert histories, state.json with lastCheckTime and the
\* notified assignments) is exactly what it was when the pass began.
C12_FailedPassLeavesPersistedState ==
    pass.result = "failed" => Persisted = pass.begun

\* C13: an error raised while one ticket of a pass is handled never keeps a
\* later ticket of the batch from being processed: when the pass is over, no
\* ticket was left out together with one found before it.
C13_ErrorDoesNotAbortBatch ==
    pass.result \in {"completed", "failed"} =>
        \A i, j \in DOMAIN pass.found :
            i < j => pass.found[i] \in pass.handled \/ pass.found[j] \in pass.handled

\* C14: when the write of sla-state.json fails, checkSLAStatus does not throw,
\* the record in memory (with the alert entry the call appended) stays as it
\* is for the next pass to start from, and the pass goes on with the tickets
\* that remain.
C14_FailedWriteIsSurvived ==
    [][(/\ pc[Driver] = "save"
        /\ pc'[Driver] # "save"
        /\ slaStateFile' # writing[Driver].data)
       => /\ frame'[Driver] = NoFrame
          /\ slaStateCache' = slaStateCache
          /\ heap' = heap
          /\ slaStateFile' = slaStateFile
          /\ queue' = queue
          /\ pass'.result = "running"
          /\ pass'.handled = pass.handled \cup {frame[Driver].ticket.id}
          /\ stage' = IF queue[Driver] = <<>> THEN "finish" ELSE "ticket"]_vars

\* A write failed after an alert was recorded: the entry is in memory only
\* and a ticket of the batch is still to be handled.
C14_EntryKeptInMemory ==
    /\ stage = "ticket"
    /\ pass.result = "running"
    /\ "t1" \in pass.handled
    /\ ~writing[Driver].pending
    /\ slaStateCache["t1"].exists
    /\ heap[slaStateCache["t1"].alert_history] # <<>>
    /\ slaStateFile # Serialize(slaStateCache, heap)
    /\ \/ ~slaStateFile["t1"].exists
       \/ slaStateFile["t1"].alert_history = <<>>

\* The instant lies inside the business hours of the calendar: its weekday in
\* the zone is a business day and its clock time lies in [startTime, endTime).
InsideBusinessHours(at, config) ==
    LET wall == at + config.timezone.offset * 60
        weekday == ((wall \div OneDay) + 4) % 7
        clock == wall % OneDay
    IN  /\ weekday \in config.businessDays
        /\ clock >= config.startTime.hours * 3600 + config.startTime.minutes * 60
        /\ clock < config.endTime.hours * 3600 + config.endTime.minutes * 60

\* C20: a pass that starts outside business hours is skipped entirely: no
\* search, no assignment notification, no SLA alert, and nothing persisted
\* changes.
C20_SkippedOutsideBusinessHours ==
    [][(/\ stage = "none"
        /\ pass' # pass
        /\ businessHours.enabled
        /\ ~InsideBusinessHours(now, businessHours))
       => /\ pass'.result = "skipped"
          /\ pass'.found = <<>>
          /\ stage' = "none"
          /\ queue' = queue
          /\ pc' = pc
          /\ messages' = messages
          /\ delivered' = delivered
          /\ frame' = frame
          /\ stateFile' = stateFile
          /\ slaStateFile' = slaStateFile
          /\ slaStateCache' = slaStateCache
          /\ processedAssignments' = processedAssignments]_vars

\* A pass was skipped although a search would have returned tickets.
C20_PassSkipped ==
    /\ pass.result = "skipped"
    /\ businessHours.enabled
    /\ ~InsideBusinessHours(now, businessHours)
    /\ stateFile.exists
    /\ Matching(stateFile.lastCheckTime) # {}
    /\ upstream["t1"].sla_status = "missed"
    /\ delivered = {}

\* The first instant strictly after `at` whose civil time in the zone of the
\* calendar is its start time on a business day.
FirstStartAfter(at, config) ==
    LET today == (at + config.timezone.offset * 60) \div OneDay
        StartOn(day) == day * OneDay + config.startTime.hours * 3600
                        + config.startTime.minutes * 60 - config.timezone.offset * 60
    IN  Least({StartOn(today + d) : d \in {d \in 0..7 :
                  /\ StartOn(today + d) > at
                  /\ (today + d + 4) % 7 \in config.businessDays}})

\* C17: for every instant and every time zone, getNextBusinessHoursStart
\* returns the first instant strictly after now whose civil time in the zone
\* is the start time and whose weekday is a business day.
C17_NextStartIsFirstStart ==
    (calendarCall.fn = "getNextBusinessHoursStart" /\ businessHours.timezone.valid)
        => /\ ~calendarCall.result.raised
           /\ calendarCall.result.value = FirstStartAfter(calendarCall.at, businessHours)

\* C18: getNextBusinessHoursStart never raises and returns after a bounded
\* number of candidate evaluations, with an instant at most two weeks away,
\* whatever the time zone configured.
C18_NextStartNeverRaises ==
    calendarCall.fn = "getNextBusinessHoursStart"
        => /\ ~calendarCall.result.raised
           /\ calendarCall.result.renderings <= 1 + 13 + 1 + 25 + 1 + 5 + 96
           /\ calendarCall.result.value > calendarCall.at
           /\ calendarCall.result.value <= calendarCall.at + 14 * OneDay

\* C19: with the calendar enabled, isBusinessHours is true exactly when the
\* weekday of the instant in the zone is a business day and its clock time
\* lies in [startTime, endTime).
C19_OpenIffInsideWindow ==
    (/\ calendarCall.fn = "isBusinessHours"
     /\ businessHours.enabled
     /\ businessHours.timezone.valid)
        => calendarCall.result = InsideBusinessHours(calendarCall.at, businessHours)

\* C16: no process beside the poller ever overwrites sla-state.json: the file
\* changes only when a save of the poller lands, and then to what the poller
\* serialised, so nothing the poller wrote is lost to a sibling.
C16_OnlyThePollerWrites ==
    [][slaStateFile' # slaStateFile
       => \E p \in Passes : /\ pc[p] = "save"
                            /\ pc'[p] # "save"
                            /\ slaStateFile' = writing[p].data]_vars

\* C15: when sla-state.json or assignment-tracking.json is missing or holds
\* corrupt JSON at startup, the load does not fail and the table it fills
\* starts empty.
C15_LoadSurvivesBadFile ==
    /\ loading.sla # "failed"
    /\ loading.tracking # "failed"
    /\ (loading.sla = "done" /\ disk.sla # "ok")
           => \A t \in Tickets : ~slaStateCache[t].exists
    /\ (loading.tracking = "done" /\ disk.tracking # "ok")
           => \A t \in Tickets : ~assignmentTrackingCache[t].exists

\* Both loads are over: sla-state.json held a record but could not be
\* parsed, assignment-tracking.json was missing, and both tables are empty.
C15_StartedEmpty ==
    /\ loading = [sla |-> "done", tracking |-> "done"]
    /\ disk = [sla |-> "corrupt", tracking |-> "missing"]
    /\ \E t \in Tickets : slaStateFile[t].exists
    /\ \A t \in Tickets : ~slaStateCache[t].exists
    /\ \A t \in Tickets : ~assignmentTrackingCache[t].exists


\* The shortest of the three bucket durations as configured: the override of
\* SLA_DURATIONS where there is one, the built-in default otherwise.
ShortestConfigured(env) ==
    Least({IF env.set /\ env.FRT # 0 THEN env.FRT ELSE FiveMinutes,
           IF env.set /\ env.NRT # 0 THEN env.NRT ELSE FiveMinutes,
           IF env.set /\ env.TTC # 0 THEN env.TTC ELSE OneDay})

\* C21: for an SLA name that matches no keyword bucket, the resolved
\* duration is the shortest of the configured bucket durations, overrides
\* included.
C21_UnknownNameGetsShortest ==
    (probe.fn = "getSLADuration" /\ probe.sla_name = {})
        => probe.result = ShortestConfigured(probe.durations)

\* C22: an assignment-tracking record is created the first time a ticket is
\* observed with an assignment, is overwritten when and only when the
\* observed assignment instant differs from the stored one, and is never
\* deleted.
C22_AssignmentsAreTracked ==
    [][/\ (/\ stage = "ticket"
           /\ stage' = "sla"
           /\ Head(queue[Driver]).id \in Tickets
           /\ upstream[Head(queue[Driver]).id].admin_assignee_id # 0
           /\ upstream[Head(queue[Driver]).id].first_assignment_at # 0)
          => assignmentTrackingCache'[Head(queue[Driver]).id].exists
       /\ \A t \in Tickets :
             assignmentTrackingCache[t].exists =>
                /\ assignmentTrackingCache'[t].exists
                /\ \/ assignmentTrackingCache'[t] = assignmentTrackingCache[t]
                   \/ assignmentTrackingCache'[t].assigned_at
                         # assignmentTrackingCache[t].assigned_at]_vars

RECURSIVE TotalOf(_, _)
\* The sum of the per-agent totals over the given agents.
TotalOf(agent_stats, agents) ==
    IF agents = {} THEN 0
    ELSE LET agent == CHOOSE a \in agents : TRUE
         IN  agent_stats[agent].total + TotalOf(agent_stats, agents \ {agent})

\* C23: getSLAStats never raises on rows with a missing deadline or assignee
\* name, and the per-agent totals sum to the number of rows aggregated.
C23_EveryRowInBreakdown ==
    probe.fn = "getSLAStats" =>
        /\ ~probe.result.threw
        /\ TotalOf(probe.result.agent_stats, DOMAIN probe.result.agent_stats)
              = Len(probe.tickets)

\* The admins a payload names as assignee: by admin_assignee_id (of the item
\* or of the data), by the admin_assignee object or string, by the assigned_to
\* of an assignment part that is not a team, or by the older assignee field.
AdminAssignees(payload) ==
    ({payload.admin_assignee_id, payload.admin_assignee.id,
      payload.data_admin_assignee_id, payload.assignee.id}
        \cup {payload.parts[i].assigned_to.id : i \in
                {j \in DOMAIN payload.parts :
                    /\ payload.parts[j].part_type \in {"assignment", "default_assignment"}
                    /\ payload.parts[j].assigned_to.type \in {"admin", "other"}}})
    \ {""}

\* C30: extractAssignmentInfo returns null exactly when the payload has no
\* item, no conversation id or no admin assignee; otherwise it returns the
\* conversation id with the id of an admin the payload names as assignee,
\* whether a team is named beside it or not.
C30_NullIffNoAdminAssignee ==
    probe.fn = "extractAssignmentInfo" =>
        LET payload == probe.payload
            conversationId == IF payload.item_id # "" THEN payload.item_id
                              ELSE payload.conversation_id
        IN  IF payload.item = "none" \/ conversationId = "" \/ AdminAssignees(payload) = {}
            THEN ~probe.result.found
            ELSE /\ probe.result.found
                 /\ probe.result.conversationId = conversationId
                 /\ probe.result.assigneeId \in AdminAssignees(payload)

\* C24: for deliveries of the same webhook id that arrive within the dedupe
\* TTL, however their handling interleaves, at most one Slack notification
\* is sent.
C24_OneNotificationPerWebhook ==
    \A i, j \in DOMAIN slack :
        (/\ i < j
         /\ slack[i].kind = "assignment"
         /\ slack[j].kind = "assignment"
         /\ slack[i].webhookId = slack[j].webhookId
         /\ slack[j].at - slack[i].at <= DedupeTtl)
            => FALSE

\* C25: for one assignment key (conversation, assignee address, assignment
\* instant) at most one assignment notification is sent within the dedupe
\* TTL, also when several webhooks with different ids announce it.
C25_OneNotificationPerAssignment ==
    \A i, j \in DOMAIN slack :
        (/\ i < j
         /\ slack[i].kind = "assignment"
         /\ slack[j].kind = "assignment"
         /\ slack[i].conversationId = slack[j].conversationId
         /\ slack[i].to = slack[j].to
         /\ slack[i].lastAssignmentAt = slack[j].lastAssignmentAt
         /\ slack[i].lastAssignmentAt # 0
         /\ slack[j].at - slack[i].at <= DedupeTtl)
            => FALSE

\* C26: with FIN_GATE_MODE=required a Slack notification is sent only for a
\* conversation in which Fin is found involved; when it is not, nothing is
\* sent.
C26_RequiredGateFailsClosed ==
    settings.FIN_GATE_MODE = "required" =>
        \A i \in DOMAIN slack : slack[i].finInvolved

\* A webhook about an open conversation without any sign of Fin, for an
\* agent who never opted out, was handled to its end: its id is marked as
\* processed and nothing was sent.
C26_StoppedAtTheGate ==
    /\ settings.FIN_GATE_MODE = "required"
    /\ \A c \in Conversations :
          conversations[c].state = "open" /\ ~isFinInvolved(conversations[c]).involved
    /\ preferencesStore = NoPreferences
    /\ \E entry \in dedupeStore : entry.key[1] = "webhook"
    /\ slack = <<>>

\* C27: once a user has opted out, no assignment notification and no nudge
\* is sent to that user until they opt in again: no message is posted for an
\* address whose preference is "out" at the moment of the send.
C27_NothingAfterOptOut ==
    \A i \in DOMAIN slack : slack[i].channel = "dm" => ~slack[i].optedOut

\* C28: with SLA_NUDGE_MINUTES = N > 0, when the timer of a successful
\* notification has fired N minutes later and Intercom shows the conversation
\* still open with no admin reply since the assignment, the nudge is sent: the
\* callback goes on to sendAssignmentDM.
C28_DueNudgeIsSent ==
    [][\A timer \in timers :
          ( /\ timer.stage = "fetching"
            /\ conversations[timer.conversationId].state = "open"
            /\ ~hasAdminReply(conversations[timer.conversationId])
            /\ NudgeFetched(timer, TRUE) )
          => \E sending \in timers' :
                /\ sending.stage = "sending"
                /\ sending.conversationId = timer.conversationId]_vars

\* A conversation.admin.assigned payload that names a team and no admin.
TeamOnlyWebhook(payload) ==
    /\ payload.topic = Assigned
    /\ payload.team_assignee_id # ""
    /\ payload.admin_assignee_id = ""
    /\ payload.data_admin_assignee_id = ""
    /\ payload.admin_assignee.id = ""
    /\ payload.assignee.id = ""

\* C29: a webhook that carries only a team assignee produces a notification if
\* and only if FALLBACK_CHANNEL is configured, and then in the fallback
\* channel: with the channel configured the handling of such a webhook for an
\* open conversation with Fin goes on after the fallback fetch, and whatever a
\* handling of such a webhook posts is posted to the configured channel.
C29_TeamOnlyGoesToFallbackChannel ==
    [][\A slot \in Slots :
          (handlers[slot].pc # "idle" /\ TeamOnlyWebhook(handlers[slot].payload)) =>
             /\ ( /\ settings.FALLBACK_CHANNEL
                  /\ handlers[slot].pc = "fallback"
                  /\ conversations[fallbackId(handlers[slot].payload)].state = "open"
                  /\ isFinInvolved(conversations[fallbackId(handlers[slot].payload)]).involved
                  /\ FallbackFetched(slot, TRUE) )
                => handlers'[slot].pc # "idle"
             /\ ( /\ handlers[slot].pc = "sending"
                  /\ handlers'[slot].pc = "idle"
                  /\ Len(slack') > Len(slack) )
                => /\ settings.FALLBACK_CHANNEL
                   /\ slack'[Len(slack')].channel = "fallback"]_vars

\* The header of the request spells the HMAC of its body under the secret of
\* the process, in either case of the hexadecimal digits.
SignatureValid(request) ==
    /\ request.secret # ""
    /\ Len(request.signature) = HexLen + 2
    /\ SubSeq(request.signature, 1, 2) = <<"sha1", "=">>
    /\ \A i \in 1..HexLen :
          LET c == request.signature[i + 2]
          IN  (IF c = "A" THEN "a" ELSE c) = createHmac(request.secret, request.body)[i]

\* C31: a request whose X-Hub-Signature is missing or is not a valid HMAC of
\* the raw body under the client secret is answered 401 and its payload is
\* never passed to handleWebhook.
C31_UnsignedIsRefused ==
    (probe.fn = "response" /\ ~SignatureValid(probe.request)) =>
        (probe.status = 401 /\ probe.handed = "")

\* C32: checkSLAStatus returns alerted = true if and only if an alert message
\* was delivered to the alert channel during that call.
C32_AlertedIffDelivered ==
    \A p \in Passes :
        (frame[p].active /\ frame[p].awaiting = "save")
        => (frame[p].result.alerted <=> frame[p].success)

\* C33: if a tracked ticket is active and not paused and its deadline passes
\* while the poller keeps running inside business hours with an alert channel
\* configured and sends succeeding, a deadline_violation alert for it is
\* eventually dispatched, whether or not the ticket is modified upstream
\* after the deadline.
C33_DeadlineViolationEventuallyDispatched ==
    ( /\ []<>(stage = "finish" /\ pass.result = "running")
      /\ [](failed = {})
      /\ [](isBusinessHours(now, businessHours)) )
    => \A t \in Tickets :
          <>(\E key \in delivered : key.ticket = t /\ key.type = "deadline_violation")

\* C34: lastCheckTime is advanced only at the end of a pass whose ticket loop
\* finished without throwing; when a pass has aborted with an error,
\* lastCheckTime has the value it had when the pass began, so that the next
\* pass searches from the same timestamp.
C34_AbortKeepsLastCheckTime ==
    pass.result = "failed" =>
        getState(stateFile).lastCheckTime = getState(pass.begun.state).lastCheckTime

\* A notification attempt for an assignment of the ticket failed and no
\* direct message for that assignment has been delivered since (every
\* assignee of SpecWatch is opted in and known by email).
FailedNotification(t) ==
    \E key \in processedAssignments \ messages : key.ticket = t

\* C35: an assignment whose notification attempt failed is attempted again on
\* a later polling pass until it succeeds: with every assignee opted in and
\* known by email, passes that keep coming and Slack failing only during the
\* first interval, the direct message of every failed assignment is
\* eventually delivered.
C35_FailedNotificationRetried ==
    []<>(stage = "finish" /\ pass.result = "running") =>
        \A t \in Searched : FailedNotification(t) ~> ~FailedNotification(t)

\* C36: once an assignee has been notified for a ticket and the entry is
\* retained in state.json, no later pass sends that assignee another direct
\* message for the ticket while its assignment stays as it was (in
\* SpecRepeat nothing but updated_at ever changes upstream).
C36_NoRepeatWithoutReassignment ==
    [][\A key \in messages' \ messages :
          LET n == getState(stateFile).notifiedAssignments[key.ticket]
          IN  ~(n.present /\ n.assigneeId = key.assignee)]_vars

\* C37: for every conversation at most one nudge timer is pending, nudgeQueue
\* holds the entry of the pending timer for as long as it is pending, and an
\* entry is there only while a nudge of the conversation is pending or its
\* callback is running.
C37_QueueMatchesPendingNudge ==
    \A c \in Conversations :
        LET waiting == {t \in timers : t.conversationId = c /\ t.stage = "pending"}
        IN  /\ Cardinality(waiting) <= 1
            /\ \A t \in waiting :
                  nudgeQueue[c].scheduled /\ nudgeQueue[c].timeoutId = t.dueAt
            /\ nudgeQueue[c].scheduled => \E t \in timers : t.conversationId = c

\* C38: every call of checkSLAStatus finds in the cache, as previous state,
\* the record persisted for its ticket, alert_history included, if there is
\* one; and the load started at the import leaves every record that is
\* already in the cache (checkSLAStatus wrote it) as it is.
C38_LoadNeverLosesToACall ==
    [][/\ \A p \in Passes :
             (pc[p] = "loop" /\ queue[p] # <<>> /\ queue'[p] = Tail(queue[p])) =>
                 LET t == Head(queue[p]).id
                 IN  slaStateFile[t].exists =>
                        /\ slaStateCache[t].exists
                        /\ Serialize(slaStateCache, heap)[t] = slaStateFile[t]
       /\ (loading.sla = "reading" /\ loading'.sla # "reading") =>
             \A t \in Tickets :
                 slaStateCache[t].exists =>
                     Serialize(slaStateCache', heap')[t] = Serialize(slaStateCache, heap)[t]
      ]_vars

\* C39: in the status-only monitor, once the missed notification of the
\* ticket has reached the channel, no later call that observes the status
\* missed, with every call in between observing it too, sends another one.
C39_MissedNotifiedOnce ==
    probe.fn = "monitor" =>
        \A i, j \in DOMAIN probe.log :
            (/\ i < j
             /\ probe.log[i].sent
             /\ \A k \in i..j : probe.log[k].status = "missed")
                => ~probe.log[j].sent

\* C40: when the Slack send of handleWebhook fails, the handler marks neither
\* the webhook id nor the assignment key, so that the same webhook delivered
\* again is not taken for a duplicate by either check.
C40_FailedSendMarksNothing ==
    [][\A slot \in Slots :
          (/\ handlers[slot].pc = "sending"
           /\ handlers'[slot].pc # "sending"
           /\ slack' = slack)
          => LET payload == handlers[slot].payload
                 info == handlers[slot].info
             IN  /\ dedupeStore' = dedupeStore
                 /\ ~isWebhookProcessed(dedupeStore', payload.id, instant').result
                 /\ ~dedupe_isAssignmentNotified(dedupeStore', info.conversationId,
                                                 handlers[slot].assigneeEmail,
                                                 info.lastAssignmentAt, instant').result
      ]_vars

\* The second delivery of w1 has passed both duplicate checks and awaits the
\* send, after a first delivery that ended with nothing sent and nothing
\* marked: in SpecRedelivery only a failed send ends that way.
C40_RedeliveredReachesTheSend ==
    /\ served = 2
    /\ handlers["h1"].pc = "sending"
    /\ handlers["h1"].payload.id = "w1"
    /\ slack = <<>>
    /\ dedupeStore = {}
====
